---- MODULE Spec2Model ----
(***************************************************************************)
(* Model of the dealership landing page: the API client (services/api.js), *)
(* the field validators and lead throttle (utils/validation.js) and the    *)
(* stateful part of the App component (inventory load effect, lead form,   *)
(* gated-resource form).                                                   *)
(*                                                                         *)
(* The specifications share the variables:                                 *)
(*   SpecApi        the api.js functions called directly, one call at a    *)
(*                  time, with the full set of responses and a log of them *)
(*   SpecThrottle   the two throttle functions called directly             *)
(*   SpecInventory  the mounted App and its inventory load                 *)
(*   SpecFilter     the loaded inventory and its filters                   *)
(*   SpecLead       the lead form, the throttle, the clock and the storage *)
(*   SpecResource   the gated-resource modal and its form                  *)
(*   SpecForms      the two forms, the user keeping to one of them         *)
(*   SpecValidators the four field validators called directly              *)
(*   SpecCooldown   the lead form across reloads, the page the only writer *)
(*                  of a working storage                                   *)
(*   SpecLive       the load and the two forms with every request answered *)
(* The three parts of the App share no state, so each is explored on its   *)
(* own, from a state in which the other parts are at rest.  A state update *)
(* of a handler is visible to the next event (React flushes the updates of *)
(* a discrete event before the next one is dispatched).                    *)
(*                                                                         *)
(* Text that the code trims, measures or matches is a sequence of          *)
(* one-character strings; text that the code only passes around (messages, *)
(* paths) is a TLA+ string.  JSON values are tagged records.               *)
(***************************************************************************)
EXTENDS Integers, Sequences, FiniteSets, TLC

VARIABLES
  API_BASE,            \* api.js:1   the configured base URL (text)
  calls,               \* the calls of the api.js functions: id -> call record
  now,                 \* Date.now(), in ms since the start of the run
  storage,             \* localStorage[STORAGE_KEY]: Absent or a text
  storageFails,        \* TRUE when localStorage access throws
  mounted,             \* the App component is mounted
  cancelled,           \* App.test.js:145  the load effect's flag
  inventoryState,      \* App.test.js:85
  leadForm,            \* App.test.js:123
  leadErrors,          \* App.test.js:133
  leadSubmitState,     \* App.test.js:134
  resourceModalOpen,   \* App.test.js:103
  selectedResource,    \* App.test.js:104  (its id)
  resourceForm,        \* App.test.js:111
  resourceErrors,      \* App.test.js:116
  resourceSubmitState, \* App.test.js:117
  filters,             \* App.test.js:93
  lastEvent            \* history: what the last step did

apiVars == <<API_BASE, calls>>
clockVars == <<now, storage, storageFails>>
invVars == <<mounted, cancelled, inventoryState>>
leadVars == <<leadForm, leadErrors, leadSubmitState>>
resVars == <<resourceModalOpen, selectedResource, resourceForm,
             resourceErrors, resourceSubmitState>>
vars == <<API_BASE, calls, now, storage, storageFails, mounted, cancelled,
          inventoryState, leadForm, leadErrors, leadSubmitState,
          resourceModalOpen, selectedResource, resourceForm, resourceErrors,
          resourceSubmitState, filters, lastEvent>>

(***************************************************************************)
(* Text                                                                    *)
(***************************************************************************)
Whitespace == {" ", "\t", "\n"}

RECURSIVE TrimStart(_)
TrimStart(s) ==
  IF s # <<>> /\ Head(s) \in Whitespace THEN TrimStart(Tail(s)) ELSE s

RECURSIVE TrimEnd(_)
TrimEnd(s) ==
  IF s # <<>> /\ s[Len(s)] \in Whitespace
    THEN TrimEnd(SubSeq(s, 1, Len(s) - 1))
    ELSE s

\* String.prototype.trim
Trim(s) == TrimEnd(TrimStart(s))

(***************************************************************************)
(* JSON values, as JSON.parse produces them                                *)
(***************************************************************************)
Undefined == [type |-> "undefined"]
JNull == [type |-> "null"]
JBool(b) == [type |-> "boolean", bool |-> b]
JNum(n) == [type |-> "number", num |-> n]
JStr(s) == [type |-> "string", str |-> s]
JArr(s) == [type |-> "array", elems |-> s]
JObj(f) == [type |-> "object", fields |-> f]

\* v?.[k]
Get(v, k) ==
  IF v.type = "object" /\ k \in DOMAIN v.fields THEN v.fields[k] ELSE Undefined

\* Array.isArray(v)
IsArray(v) == v.type = "array"

\* ToBoolean(v), as the operators || and ! apply it
Truthy(v) ==
  CASE v.type \in {"undefined", "null"} -> FALSE
    [] v.type = "boolean" -> v.bool
    [] v.type = "number" -> v.num # 0
    [] v.type = "string" -> v.str # ""
    [] OTHER -> TRUE

\* String(v), as new Error(v) applies it to its message argument
ToStr(v) ==
  CASE v.type = "string" -> v.str
    [] v.type = "number" -> ToString(v.num)
    [] v.type = "boolean" -> (IF v.bool THEN "true" ELSE "false")
    [] v.type = "array" ->
         (IF v.elems = <<>> THEN "" ELSE "[object Object]")
    [] v.type = "object" -> "[object Object]"
    [] OTHER -> v.type

(***************************************************************************)
(* api.js                                                                  *)
(***************************************************************************)
\* api.js:1-4  the two environment variables, Undefined or a text
\* (an environment variable is Undefined or Text(chars))
Text(chars) == [type |-> "string", chars |-> chars]

TextTruthy(v) == v.type = "string" /\ v.chars # <<>>

ApiBaseOf(envApiBase, envBackendUrl) ==
  IF TextTruthy(envApiBase) THEN envApiBase.chars
  ELSE IF TextTruthy(envBackendUrl) THEN envBackendUrl.chars
  ELSE <<>>

hasApiBase_NoTrim == Len(API_BASE) > 0

hasApiBase == Len(Trim(API_BASE)) > 0

\* the body text of a response: empty, not JSON, or the JSON text of a value
EmptyText == [text |-> "empty"]
GarbageText == [text |-> "garbage"]
JsonText(v) == [text |-> "json", value |-> v]

safeJson(text) ==
  IF text.text = "empty" THEN JNull
  ELSE IF text.text = "json" THEN text.value
  ELSE JObj([raw |-> JStr("<html>")])

\* a response of fetch: a network failure, or a status line and a body text
NetFail == [fetch |-> "rejected"]
Http(status, statusText, text) ==
  [fetch |-> "response", status |-> status, statusText |-> statusText,
   body |-> text]

\* Response.ok
ResOk(res) == res.status \in 200..299

NoStatus == -1
NoErr == [none |-> TRUE]
Err(message, status) == [message |-> message, status |-> status]
Threw(err) == [threw |-> TRUE, err |-> err]
Returned(data) == [threw |-> FALSE, data |-> data]

\* api.js:31-54  the outcome of requestJson for the response the network gave
requestJson_ParseFirst(res) ==
  IF res.fetch = "rejected" THEN Threw(Err("Failed to fetch", NoStatus))
  ELSE IF res.body.text # "json"
    THEN Threw(Err("Unexpected end of JSON input", NoStatus))
  ELSE IF ~ResOk(res) THEN
    LET body == res.body.value
        message ==
          IF Truthy(Get(body, "message")) THEN ToStr(Get(body, "message"))
          ELSE IF Truthy(Get(body, "error")) THEN ToStr(Get(body, "error"))
          ELSE "Request failed (" \o ToString(res.status) \o " "
                 \o res.statusText \o ")"
    IN Threw(Err(message, res.status))
  ELSE Returned(res.body.value)

requestJson(res) ==
  IF res.fetch = "rejected" THEN Threw(Err("Failed to fetch", NoStatus))
  ELSE IF ~ResOk(res) THEN
    LET body == safeJson(res.body)
        message ==
          IF Truthy(Get(body, "message")) THEN ToStr(Get(body, "message"))
          ELSE IF Truthy(Get(body, "error")) THEN ToStr(Get(body, "error"))
          ELSE "Request failed (" \o ToString(res.status) \o " "
                 \o res.statusText \o ")"
    IN Threw(Err(message, res.status))
  ELSE Returned(safeJson(res.body))
\* api.js:56-167  one record of the static dataset, from its plain values
Car(r) ==
  JObj([id |-> JStr(r.id), title |-> JStr(r.title), price |-> JNum(r.price),
        year |-> JNum(r.year), make |-> JStr(r.make), model |-> JStr(r.model),
        body |-> JStr(r.body), mileage |-> JNum(r.mileage),
        fuel |-> JStr(r.fuel), transmission |-> JStr(r.transmission),
        drivetrain |-> JStr(r.drivetrain), color |-> JStr(r.color),
        imageUrl |-> JNull,
        highlights |-> JArr([i \in 1..Len(r.highlights) |->
                               JStr(r.highlights[i])]),
        description |-> JStr(r.description)])

getMockInventory ==
  <<
     Car([id |-> "car-001", title |-> "2022 Honda Accord EX", price |-> 26995, year |-> 2022,
          make |-> "Honda", model |-> "Accord", body |-> "Sedan", mileage |-> 22110,
          fuel |-> "Gas", transmission |-> "Automatic", drivetrain |-> "FWD",
          color |-> "Platinum White",
          highlights |-> <<"Clean CARFAX", "Adaptive Cruise", "Apple CarPlay">>,
          description |->
            "A comfortable, efficient midsize sedan with modern safety features and a refined interior."]),
     Car([id |-> "car-002", title |-> "2021 Toyota RAV4 XLE", price |-> 28950, year |-> 2021,
          make |-> "Toyota", model |-> "RAV4", body |-> "SUV", mileage |-> 28405,
          fuel |-> "Gas", transmission |-> "Automatic", drivetrain |-> "AWD",
          color |-> "Magnetic Gray",
          highlights |-> <<"AWD", "Heated Seats", "Lane Assist">>,
          description |->
            "Versatile compact SUV with excellent reliability and everyday practicality."]),
     Car([id |-> "car-003", title |-> "2020 Tesla Model 3 Standard Range Plus", price |-> 30990, year |-> 2020,
          make |-> "Tesla", model |-> "Model 3", body |-> "Sedan", mileage |-> 19820,
          fuel |-> "Electric", transmission |-> "Single-speed", drivetrain |-> "RWD",
          color |-> "Red Multi-Coat",
          highlights |-> <<"Autopilot", "Fast Charging", "Premium Audio">>,
          description |->
            "All-electric sedan with instant torque, a minimalist cabin, and strong safety ratings."]),
     Car([id |-> "car-004", title |-> "2023 Ford F-150 XLT", price |-> 41995, year |-> 2023,
          make |-> "Ford", model |-> "F-150", body |-> "Truck", mileage |-> 12050,
          fuel |-> "Gas", transmission |-> "Automatic", drivetrain |-> "4WD",
          color |-> "Iconic Silver",
          highlights |-> <<"4WD", "Tow Package", "Remote Start">>,
          description |->
            "America's favorite pickup with power, tech, and comfort for work or weekend adventures."]),
     Car([id |-> "car-005", title |-> "2022 BMW X3 xDrive30i", price |-> 39950, year |-> 2022,
          make |-> "BMW", model |-> "X3", body |-> "SUV", mileage |-> 16490,
          fuel |-> "Gas", transmission |-> "Automatic", drivetrain |-> "AWD",
          color |-> "Alpine White",
          highlights |-> <<"Luxury Package", "Panoramic Roof", "AWD">>,
          description |->
            "Premium compact SUV with sporty handling and a high-quality, tech-forward cabin."]),
     Car([id |-> "car-006", title |-> "2021 Mazda CX-5 Touring", price |-> 24995, year |-> 2021,
          make |-> "Mazda", model |-> "CX-5", body |-> "SUV", mileage |-> 26340,
          fuel |-> "Gas", transmission |-> "Automatic", drivetrain |-> "AWD",
          color |-> "Deep Crystal Blue",
          highlights |-> <<"AWD", "Blind Spot Monitor", "Great Condition">>,
          description |->
            "A stylish SUV known for agile driving dynamics and an upscale interior feel."])
  >>

\* api.js:175, 211, 243-248  the candidate paths of each function
Candidates(kind) ==
  CASE kind = "inventory" ->
         <<"/api/inventory", "/inventory", "/api/cars", "/cars">>
    [] kind = "lead" ->
         <<"/api/leads", "/leads", "/api/contact", "/contact">>
    [] kind = "resource" ->
         <<"/api/resources/request", "/resources/request", "/api/resources",
           "/resources">>

Kinds == {"inventory", "lead", "resource"}

(***************************************************************************)
(* A call of fetchInventory, submitLead or submitGatedResourceRequest.     *)
(*   sent     the candidate paths requested so far, in order               *)
(*   waiting  a request (the last of sent) or the mock timer is pending    *)
(*   payload  the argument of submitLead or submitGatedResourceRequest     *)
(*   lastErr  the local variable lastErr                                   *)
(*   log      history: the responses received so far, in order             *)
(*   state    the state of the promise the call returned                   *)
(*   value    what the promise was fulfilled or rejected with              *)
(***************************************************************************)
NoValue == [none |-> TRUE]

NewCall(kind, caller, mode, sent) ==
  [kind |-> kind, caller |-> caller, mode |-> mode, sent |-> sent,
   payload |-> NoValue, waiting |-> TRUE, lastErr |-> NoErr, log |-> <<>>,
   state |-> "pending", value |-> NoValue]

Fulfil(call, value) ==
  [call EXCEPT !.waiting = FALSE, !.state = "fulfilled", !.value = value]

Reject(call, err) ==
  [call EXCEPT !.waiting = FALSE, !.state = "rejected", !.value = err]

\* the next iteration of the for loop over the candidates: request the next
\* path and wait for its response
TryNext_Retry(call) ==
  [call EXCEPT !.sent = Append(@, Candidates(call.kind)[Len(@)])]

TryNext_All(call) ==
  [call EXCEPT !.sent = Candidates(call.kind)]

TryNext(call) ==
  [call EXCEPT !.sent = Append(@, Candidates(call.kind)[Len(@) + 1])]

Exhausted(call) == Len(call.sent) = Len(Candidates(call.kind))

\* the first statement of each function: mock mode settles without a request
\* (reads at once, writes after the 650 ms timer), live mode requests the
\* first candidate
StartCall(kind, caller) ==
  IF ~hasApiBase THEN NewCall(kind, caller, "mock", <<>>)
  ELSE NewCall(kind, caller, "live", <<Candidates(kind)[1]>>)

DefaultWarning ==
  "Backend inventory endpoint unavailable; using mock inventory."

MockSnapshot == [source |-> "mock", items |-> getMockInventory]

\* api.js:193-199
FallbackSnapshot_NoDefault(lastErr) ==
  [source |-> "mock", items |-> getMockInventory,
   warning |-> IF lastErr # NoErr THEN lastErr.message ELSE ""]

FallbackSnapshot(lastErr) ==
  [source |-> "mock", items |-> getMockInventory,
   warning |-> IF lastErr # NoErr /\ lastErr.message # ""
                 THEN lastErr.message
                 ELSE DefaultWarning]

\* api.js:183  Array.isArray(data) ? data : data?.items
ItemsOf(data) == IF IsArray(data) THEN data ELSE Get(data, "items")

\* api.js:178-199  fetchInventory resumed with the response of the pending
\* request
fetchInventory_Rethrow(call, res) ==
  LET out == requestJson(res)
      c1 == [call EXCEPT !.log = Append(@, res)]
  IN IF ~out.threw /\ IsArray(ItemsOf(out.data))
       THEN Fulfil(c1, [source |-> "api", items |-> ItemsOf(out.data).elems])
       ELSE LET c2 == IF out.threw THEN [c1 EXCEPT !.lastErr = out.err]
                      ELSE c1
            IN IF ~Exhausted(c2) THEN TryNext(c2)
               ELSE IF c2.lastErr # NoErr THEN Reject(c2, c2.lastErr)
               ELSE Fulfil(c2, FallbackSnapshot(c2.lastErr))

fetchInventory_Abort(call, res) ==
  LET out == requestJson(res)
      c1 == [call EXCEPT !.log = Append(@, res)]
  IN IF ~out.threw /\ IsArray(ItemsOf(out.data))
       THEN Fulfil(c1, [source |-> "api", items |-> ItemsOf(out.data).elems])
       ELSE LET c2 == IF out.threw THEN [c1 EXCEPT !.lastErr = out.err]
                      ELSE c1
            IN IF ~Exhausted(c2) /\ out.threw THEN TryNext(c2)
               ELSE Fulfil(c2, FallbackSnapshot(c2.lastErr))

fetchInventory(call, res) ==
  LET out == requestJson(res)
      c1 == [call EXCEPT !.log = Append(@, res)]
  IN IF ~out.threw /\ IsArray(ItemsOf(out.data))
       THEN Fulfil(c1, [source |-> "api", items |-> ItemsOf(out.data).elems])
       ELSE LET c2 == IF out.threw THEN [c1 EXCEPT !.lastErr = out.err]
                      ELSE c1
            IN IF ~Exhausted(c2) THEN TryNext(c2)
               ELSE Fulfil(c2, FallbackSnapshot(c2.lastErr))

\* api.js:214-226  submitLead resumed with the response of the pending request
submitLead_FirstErr(call, res) ==
  LET out == requestJson(res)
      c1 == [call EXCEPT !.log = Append(@, res)]
  IN IF ~out.threw
       THEN Fulfil(c1, [ok |-> TRUE, source |-> "api", data |-> out.data])
       ELSE LET c2 == IF c1.lastErr = NoErr
                        THEN [c1 EXCEPT !.lastErr = out.err] ELSE c1
            IN IF ~Exhausted(c2) THEN TryNext(c2)
               ELSE Reject(c2, c2.lastErr)

submitLead(call, res) ==
  LET out == requestJson(res)
      c1 == [call EXCEPT !.log = Append(@, res)]
  IN IF ~out.threw
       THEN Fulfil(c1, [ok |-> TRUE, source |-> "api", data |-> out.data])
       ELSE LET c2 == [c1 EXCEPT !.lastErr = out.err]
            IN IF ~Exhausted(c2) THEN TryNext(c2)
               ELSE Reject(c2, c2.lastErr)

\* api.js:257  { ok: true, source: "api", ...(data || {}) }: the own
\* enumerable properties of data are copied over ok and source
SpreadOver(base, data) ==
  IF data.type = "object" THEN JObj(data.fields @@ base)
  ELSE IF data.type = "array"
    THEN JObj([k \in {ToString(i - 1) : i \in 1..Len(data.elems)} |->
                 LET i == CHOOSE j \in 1..Len(data.elems) : ToString(j - 1) = k
                 IN data.elems[i]] @@ base)
  ELSE JObj(base)

\* api.js:251-263  submitGatedResourceRequest resumed with the response of
\* the pending request
submitGatedResourceRequest(call, res) ==
  LET out == requestJson(res)
      c1 == [call EXCEPT !.log = Append(@, res)]
  IN IF ~out.threw
       THEN Fulfil(c1, SpreadOver([ok |-> JBool(TRUE), source |-> JStr("api")],
                                  out.data))
       ELSE LET c2 == [c1 EXCEPT !.lastErr = out.err]
            IN IF ~Exhausted(c2) THEN TryNext(c2)
               ELSE Reject(c2, c2.lastErr)

MockResourceMessage ==
  "Thanks! We'll email the resource shortly. (Mock mode: no email sent.)"

\* api.js:172, 205-209, 232-241  what a call settles with in mock mode
MockResult(kind) ==
  CASE kind = "inventory" -> MockSnapshot
    [] kind = "lead" -> [ok |-> TRUE, source |-> "mock"]
    [] kind = "resource" ->
         JObj([ok |-> JBool(TRUE), source |-> JStr("mock"),
               downloadUrl |-> JNull, message |-> JStr(MockResourceMessage)])

\* a call resumed with a response, by the function that made it
Resume(call, res) ==
  CASE call.kind = "inventory" -> fetchInventory(call, res)
    [] call.kind = "lead" -> submitLead(call, res)
    [] call.kind = "resource" -> submitGatedResourceRequest(call, res)
(***************************************************************************)
(* utils/validation.js: field validators.  A field value is Text(chars),   *)
(* or another JSON value when the caller passes a wrong-typed one.         *)
(***************************************************************************)
Digits == {"0", "1", "2", "3", "4", "5", "6", "7", "8", "9"}

RequiredMessage == "This field is required."
EmailMessage == "Enter a valid email address."
PhoneMessage == "Enter a valid phone number."

\* the TypeError a validator raises when it calls .trim on a non-string
TypeErrorThrown == "TypeError: trim is not a function"

\* validation.js:3-4  EMAIL_RE.test(s)
EMAIL_RE(s) ==
  \E at \in 1..Len(s), dot \in 1..Len(s) :
    /\ s[at] = "@" /\ s[dot] = "."
    /\ at >= 2 /\ dot >= at + 2 /\ Len(s) - dot >= 2
    /\ \A j \in 1..Len(s) : s[j] \notin Whitespace /\ (s[j] = "@" => j = at)

\* validation.js:6-7  PHONE_RE.test(s)
PHONE_RE(s) ==
  /\ Len(s) >= 7
  /\ \A j \in 1..Len(s) :
       s[j] \in Digits \cup Whitespace \cup {"+", "(", ")", "-", "."}

\* validation.js:10-15
validateRequired(value) ==
  IF value.type # "string" THEN RequiredMessage
  ELSE IF Trim(value.chars) = <<>> THEN RequiredMessage
  ELSE ""

\* validation.js:18-24
validateEmail(value) ==
  LET req == validateRequired(value)
  IN IF req # "" THEN req
     ELSE IF ~EMAIL_RE(Trim(value.chars)) THEN EmailMessage
     ELSE ""

\* value || "" for a field value
ValueTruthy(value) ==
  IF value.type = "string" /\ "chars" \in DOMAIN value
    THEN value.chars # <<>>
    ELSE Truthy(value)

\* validation.js:27-33
validatePhoneOptional(value) ==
  IF ~ValueTruthy(value) THEN ""
  ELSE IF value.type # "string" THEN TypeErrorThrown
  ELSE LET v == Trim(value.chars)
       IN IF v = <<>> THEN ""
          ELSE IF ~PHONE_RE(v) THEN PhoneMessage
          ELSE ""

\* validation.js:36-41
validateMinLen(value, min, fieldName) ==
  IF ValueTruthy(value) /\ value.type # "string" THEN TypeErrorThrown
  ELSE LET v == IF ValueTruthy(value) THEN Trim(value.chars) ELSE <<>>
       IN IF Len(v) < min
            THEN fieldName \o " must be at least " \o ToString(min)
                   \o " characters."
            ELSE ""

(***************************************************************************)
(* utils/validation.js: lead throttle                                      *)
(***************************************************************************)
\* validation.js:44
DEFAULT_WINDOW_MS == 24 * 60 * 60 * 1000

\* localStorage.getItem returns null for a missing key
Absent == [type |-> "null"]

DigitValue(ch) == CHOOSE d \in 0..9 : ToString(d) = ch

RECURSIVE DecimalValue(_)
DecimalValue(s) ==
  IF s = <<>> THEN 0
  ELSE 10 * DecimalValue(SubSeq(s, 1, Len(s) - 1)) + DigitValue(s[Len(s)])

NaN == [finite |-> FALSE]
Finite(n) == [finite |-> TRUE, num |-> n]

\* Number(raw) for a text: surrounding whitespace is ignored, the empty text
\* is 0, a run of decimal digits is its value, anything else is NaN
NumberOf(chars) ==
  LET t == Trim(chars)
  IN IF t = <<>> THEN Finite(0)
     ELSE IF \A j \in 1..Len(t) : t[j] \in Digits THEN Finite(DecimalValue(t))
     ELSE NaN

\* String(n) for an integer n >= 0
RECURSIVE StringOf(_)
StringOf(n) ==
  IF n < 10 THEN <<ToString(n)>>
  ELSE Append(StringOf(n \div 10), ToString(n % 10))

\* validation.js:47-60
getLeadSubmissionCooldownRemainingMs_NoClamp(windowMs) ==
  IF storageFails THEN 0
  ELSE IF storage = Absent \/ storage.chars = <<>> THEN 0
  ELSE LET ts == NumberOf(storage.chars)
       IN IF ~ts.finite THEN 0 ELSE windowMs - (now - ts.num)

getLeadSubmissionCooldownRemainingMs(windowMs) ==
  IF storageFails THEN 0
  ELSE IF storage = Absent \/ storage.chars = <<>> THEN 0
  ELSE LET ts == NumberOf(storage.chars)
       IN IF ~ts.finite THEN 0
          ELSE LET elapsed == now - ts.num
                   remaining == windowMs - elapsed
               IN IF remaining > 0 THEN remaining ELSE 0

\* validation.js:63-70  the value of the storage key after markLeadSubmitted
\* what a call of markLeadSubmitted that raised would leave to its caller
StorageRaised == [type |-> "raised"]
StorageErrorMessage == "The operation is insecure."

markLeadSubmitted_NoCatch ==
  IF storageFails THEN StorageRaised ELSE Text(StringOf(now))

markLeadSubmitted_Seconds ==
  IF storageFails THEN storage ELSE Text(StringOf(now \div 1000))

markLeadSubmitted ==
  IF storageFails THEN storage ELSE Text(StringOf(now))
(***************************************************************************)
(* App: forms                                                              *)
(***************************************************************************)
\* App.test.js:123-131
EmptyLead ==
  [name |-> <<>>, dealership |-> <<>>, title |-> <<>>, email |-> <<>>,
   phone |-> <<>>, message |-> <<>>, interest |-> "Request a Demo"]

\* App.test.js:111-115
EmptyResource == [name |-> <<>>, email |-> <<>>, dealership |-> <<>>]

\* an object of field errors: only the fields with a message are present
OnlyErrors(all) == [f \in {g \in DOMAIN all : all[g] # ""} |-> all[f]]

NoErrors == OnlyErrors([name |-> ""])

\* App.test.js:237-246
validateResourceForm(values) ==
  OnlyErrors([name |-> validateRequired(Text(values.name)),
              email |-> validateEmail(Text(values.email)),
              dealership |-> validateRequired(Text(values.dealership))])

\* App.test.js:248-273
validateLeadForm(values) ==
  LET msg == Trim(values.message)
  IN OnlyErrors([name |-> validateRequired(Text(values.name)),
                 dealership |-> validateRequired(Text(values.dealership)),
                 title |-> validateRequired(Text(values.title)),
                 email |-> validateEmail(Text(values.email)),
                 phone |-> validatePhoneOptional(Text(values.phone)),
                 message |-> IF msg # <<>>
                               THEN validateMinLen(Text(msg), 10, "Message")
                               ELSE ""])

BlockedMessage ==
  "Thank you - your request has already been submitted recently. Please check your email, or contact us directly if you need help sooner."
LeadSuccessMessage ==
  "Thank you - your request has been submitted. We'll reach out within 1 business day."
LeadErrorDefault ==
  "Submission failed. Please try again, or reach out via phone/email below."
ResourceSuccessDefault ==
  "Thanks! Your download is ready below (and we'll also email it to you)."
ResourceErrorDefault ==
  "We couldn't send the resource request. Please try again or contact us directly."

\* App.test.js:308-327  the branch handleLeadSubmit takes, from the cooldown
\* it reads, the status in its closure and the errors of the form values
handleLeadSubmit_NoGuard(remaining, status, errs) ==
  IF remaining > 0 THEN "blocked"
  ELSE IF errs # NoErrors THEN "invalid"
  ELSE "submit"

handleLeadSubmit_NoCooldown(remaining, status, errs) ==
  IF status = "submitting" THEN "ignored"
  ELSE IF errs # NoErrors THEN "invalid"
  ELSE "submit"

handleLeadSubmit_ValidateFirst(remaining, status, errs) ==
  IF errs # NoErrors THEN "invalid"
  ELSE IF remaining > 0 THEN "blocked"
  ELSE IF status = "submitting" THEN "ignored"
  ELSE "submit"

handleLeadSubmit(remaining, status, errs) ==
  IF remaining > 0 THEN "blocked"
  ELSE IF status = "submitting" THEN "ignored"
  ELSE IF errs # NoErrors THEN "invalid"
  ELSE "submit"

\* App.test.js:275-283  the branch handleResourceSubmit takes
handleResourceSubmit_NoValidate(status, errs) ==
  IF status = "submitting" THEN "ignored" ELSE "submit"

handleResourceSubmit(status, errs) ==
  IF status = "submitting" THEN "ignored"
  ELSE IF errs # NoErrors THEN "invalid"
  ELSE "submit"

\* err?.message || fallback
MessageOr(err, fallback) == IF err.message # "" THEN err.message ELSE fallback

\* v || fallback for JSON values
ValueOr(v, fallback) == IF Truthy(v) THEN v ELSE fallback
(***************************************************************************)
(* Bounds and inputs                                                       *)
(***************************************************************************)
\* the most calls the App has in flight at once
MaxInFlight == 2
\* the most clock advances of a run
MaxTicks == 3

HalfWindow == DEFAULT_WINDOW_MS \div 2
StartNow == DEFAULT_WINDOW_MS

LiveBase == <<"h", "t", "t", "p", ":", "/", "/", "x", "/">>
EnvValues == {Undefined, Text(<<>>), Text(<<" ">>), Text(LiveBase)}
ApiBases == {ApiBaseOf(a, b) : a, b \in EnvValues}

ItemX == JObj([id |-> JStr("x"), make |-> JStr("Kia"), price |-> JNum(100)])
ItemY == JObj([id |-> JStr("y"), make |-> JStr("Audi")])

\* the responses the network gives to a request made by a direct call
Responses ==
  { NetFail,
    Http(404, "Not Found", EmptyText),
    Http(500, "Internal Server Error", GarbageText),
    Http(400, "Bad Request", JsonText(JObj([message |-> JStr("m1")]))),
    Http(422, "Unprocessable Entity", JsonText(JObj([error |-> JStr("e1")]))),
    Http(503, "Service Unavailable", JsonText(JObj([message |-> JArr(<<>>)]))),
    Http(409, "Conflict",
         JsonText(JObj([message |-> JStr(""), error |-> JStr("e2")]))),
    Http(502, "Bad Gateway",
         JsonText(JObj([message |-> JNull, error |-> JBool(FALSE)]))),
    Http(200, "OK", EmptyText),
    Http(200, "OK", GarbageText),
    Http(200, "OK", JsonText(JArr(<<ItemX, ItemY>>))),
    Http(200, "OK", JsonText(JObj([items |-> JArr(<<ItemX>>)]))),
    Http(200, "OK", JsonText(JObj([items |-> JStr("none")]))),
    Http(201, "Created",
         JsonText(JObj([ok |-> JBool(FALSE), source |-> JStr("crm"),
                        downloadUrl |-> JStr("/g.pdf"),
                        message |-> JStr("Sent")]))) }

\* the responses the network gives to a request made by the App
AppResponses ==
  { Http(404, "Not Found", EmptyText),
    Http(200, "OK", JsonText(JObj([items |-> JArr(<<ItemX>>)]))),
    Http(201, "Created",
         JsonText(JObj([ok |-> JBool(FALSE), source |-> JStr("crm"),
                        downloadUrl |-> JStr("/g.pdf"),
                        message |-> JStr("Sent")]))) }

ValidLead ==
  [name |-> <<"A", "l">>, dealership |-> <<"D">>, title |-> <<"G", "M">>,
   email |-> <<"a", "@", "b", ".", "c", "o">>, phone |-> <<>>,
   message |-> <<>>, interest |-> "Request a Demo"]
BadLead ==
  [name |-> <<"A", "l">>, dealership |-> <<" ">>, title |-> <<"G", "M">>,
   email |-> <<"a", "@", "b">>, phone |-> <<"1", "2">>,
   message |-> <<"h", "i">>, interest |-> "Request a Demo"]
LeadForms == {EmptyLead, ValidLead, BadLead}

ValidResource ==
  [name |-> <<"A", "l">>, email |-> <<"a", "@", "b", ".", "c", "o">>,
   dealership |-> <<"D">>]
BadResource ==
  [name |-> <<"A", "l">>, email |-> <<"a", "b", ".", "c", "o">>,
   dealership |-> <<>>]
ResourceForms == {EmptyResource, ValidResource, BadResource}

\* App.test.js:892, 906  the resources of the two download buttons
ResourceIds == {"buyers-guide", "trade-in-checklist"}

InitialStorage ==
  { Absent, Text(<<"a", "b", "c">>),
    Text(StringOf(StartNow - DEFAULT_WINDOW_MS)),
    Text(StringOf(StartNow - HalfWindow)) }

(***************************************************************************)
(* Calls                                                                   *)
(***************************************************************************)
NoCalls == [c \in {} |-> NoValue]

\* the calls without call c; the ids, which only tell the calls in flight
\* apart, are closed up in their order
Remove(f, c) ==
  [d \in 1..(Cardinality(DOMAIN f) - 1) |-> IF d < c THEN f[d] ELSE f[d + 1]]

FreeId == CHOOSE c \in 1..(Cardinality(DOMAIN calls) + 1) : c \notin DOMAIN calls

AddCall(call) == [c \in DOMAIN calls \cup {FreeId} |->
                    IF c = FreeId THEN call ELSE calls[c]]

Pending(kind) ==
  {c \in DOMAIN calls : calls[c].kind = kind /\ calls[c].state = "pending"}

\* a call made by the App, resumed: the response log is kept for direct calls
\* only
AppResume(call, res) == [Resume(call, res) EXCEPT !.log = <<>>]

\* a call of the App that settles is handed to its continuation and forgotten
Keep(c, call) ==
  calls' = IF call.state = "pending" THEN [calls EXCEPT ![c] = call]
           ELSE Remove(calls, c)

(***************************************************************************)
(* Direct calls of the api.js functions (no App mounted)                   *)
(***************************************************************************)
DirectCall(kind) ==
  /\ ~mounted
  /\ \A c \in DOMAIN calls : calls[c].state # "pending"
  /\ calls' = [c \in {1} |-> StartCall(kind, "direct")]
  /\ lastEvent' = [type |-> "call", kind |-> kind]
  /\ UNCHANGED <<API_BASE, clockVars, invVars, leadVars, resVars, filters>>

CallFetchInventory == DirectCall("inventory")
CallSubmitLead == DirectCall("lead")
CallSubmitGatedResourceRequest == DirectCall("resource")

\* the response of the pending request arrives
DirectRespond ==
  \E c \in DOMAIN calls, res \in Responses :
    /\ calls[c].caller = "direct" /\ calls[c].mode = "live"
    /\ calls[c].waiting
    /\ calls' = [calls EXCEPT ![c] = Resume(calls[c], res)]
    /\ lastEvent' = [type |-> "response", kind |-> calls[c].kind]
    /\ UNCHANGED <<API_BASE, clockVars, invVars, leadVars, resVars, filters>>

\* mock mode: the async function returns (reads) or its timer fires (writes)
DirectMockSettle ==
  \E c \in DOMAIN calls :
    /\ calls[c].caller = "direct" /\ calls[c].mode = "mock"
    /\ calls[c].waiting
    /\ calls' = [calls EXCEPT ![c] = Fulfil(calls[c], MockResult(calls[c].kind))]
    /\ lastEvent' = [type |-> "mockSettle", kind |-> calls[c].kind]
    /\ UNCHANGED <<API_BASE, clockVars, invVars, leadVars, resVars, filters>>

\* the sentinels of the selects
AllOption == <<"A", "l", "l">>
AnyOption == <<"A", "n", "y">>

\* App.test.js:93-98, 727
NoFilters == [query |-> <<>>, make |-> AllOption, body |-> AllOption, maxPrice |-> AnyOption]

\* App.test.js:701-705  the options of the Max Price select
MaxPriceOptions ==
  { <<"A", "n", "y">>, <<"2", "5", "0", "0", "0">>,
    <<"3", "0", "0", "0", "0">>, <<"4", "0", "0", "0", "0">>,
    <<"5", "0", "0", "0", "0">> }

InitialInventory ==
  [loading |-> TRUE, source |-> "unknown", warning |-> "", error |-> "",
   items |-> <<>>]
InitialResourceSubmit ==
  [status |-> "idle", message |-> JStr(""), downloadUrl |-> JStr("")]

InitApi ==
  /\ API_BASE \in ApiBases
  /\ calls = NoCalls
  /\ now = StartNow
  /\ storage = Absent
  /\ storageFails = FALSE
  /\ mounted = FALSE
  /\ cancelled = FALSE
  /\ inventoryState = InitialInventory
  /\ leadForm = EmptyLead
  /\ leadErrors = NoErrors
  /\ leadSubmitState = [status |-> "idle", message |-> ""]
  /\ resourceModalOpen = FALSE
  /\ selectedResource = "resource-01"
  /\ resourceForm = EmptyResource
  /\ resourceErrors = NoErrors
  /\ resourceSubmitState = InitialResourceSubmit
  /\ filters = NoFilters
  /\ lastEvent = [type |-> "init"]

NextApi ==
  \/ CallFetchInventory
  \/ CallSubmitLead
  \/ CallSubmitGatedResourceRequest
  \/ DirectRespond
  \/ DirectMockSettle

SpecApi == InitApi /\ [][NextApi]_vars
(***************************************************************************)
(* App: the inventory load effect (App.test.js:144-175)                    *)
(***************************************************************************)
\* App.test.js:150-167  load() resumed with the settled fetchInventory call
LoadResult_SourceFirst(call) ==
  IF call.state = "fulfilled"
    THEN [inventoryState EXCEPT !.loading = FALSE,
                                !.source = call.value.source]
    ELSE [loading |-> FALSE, source |-> "unknown", warning |-> "",
          error |-> MessageOr(call.value, "Failed to load inventory."),
          items |-> <<>>]

LoadResult(call) ==
  IF call.state = "fulfilled"
    THEN [loading |-> FALSE, source |-> call.value.source,
          warning |-> IF "warning" \in DOMAIN call.value
                        THEN call.value.warning ELSE "",
          error |-> "", items |-> call.value.items]
    ELSE [loading |-> FALSE, source |-> "unknown", warning |-> "",
          error |-> MessageOr(call.value, "Failed to load inventory."),
          items |-> <<>>]

LoadContinue_NoCancelCheck(call) ==
  inventoryState' =
    IF call.state = "pending" THEN inventoryState ELSE LoadResult(call)

LoadContinue(call) ==
  inventoryState' =
    IF call.state = "pending" \/ cancelled THEN inventoryState
    ELSE LoadResult(call)

InventoryRespond ==
  \E c \in Pending("inventory"), res \in Responses :
    /\ calls[c].caller = "app" /\ calls[c].mode = "live"
    /\ LET call == AppResume(calls[c], res)
       IN Keep(c, call) /\ LoadContinue(call)
    /\ lastEvent' = [type |-> "inventoryResponse"]
    /\ UNCHANGED <<API_BASE, clockVars, mounted, cancelled, leadVars, resVars, filters>>

InventoryMockSettle ==
  \E c \in Pending("inventory") :
    /\ calls[c].caller = "app" /\ calls[c].mode = "mock"
    /\ LET call == Fulfil(calls[c], MockResult("inventory"))
       IN Keep(c, call) /\ LoadContinue(call)
    /\ lastEvent' = [type |-> "inventorySettle"]
    /\ UNCHANGED <<API_BASE, clockVars, mounted, cancelled, leadVars, resVars, filters>>

\* App.test.js:172-174  the cleanup of the load effect
Unmount ==
  /\ mounted
  /\ mounted' = FALSE
  /\ cancelled' = TRUE
  /\ lastEvent' = [type |-> "unmount"]
  /\ UNCHANGED <<API_BASE, calls, clockVars, inventoryState, leadVars, resVars, filters>>

\* App.test.js:696-698  the Max Price select changes
SetMaxPrice ==
  \E v \in MaxPriceOptions :
    /\ mounted
    /\ filters' = [filters EXCEPT !.maxPrice = v]
    /\ lastEvent' = [type |-> "setMaxPrice"]
    /\ UNCHANGED <<API_BASE, calls, clockVars, invVars, leadVars, resVars>>

\* App.test.js:726-728  the Clear filters button
ClearFilters ==
  /\ mounted
  /\ filters' = NoFilters
  /\ lastEvent' = [type |-> "clearFilters"]
  /\ UNCHANGED <<API_BASE, calls, clockVars, invVars, leadVars, resVars>>

\* App.test.js:178-187  the cooldown effect on mount
MountLeadSubmitState ==
  IF getLeadSubmissionCooldownRemainingMs(DEFAULT_WINDOW_MS) > 0
    THEN [status |-> "blocked", message |-> BlockedMessage]
    ELSE [status |-> "idle", message |-> ""]

\* the App just mounted: its effects have run and the inventory load waits
InitInventory ==
  /\ API_BASE \in ApiBases
  /\ calls = [c \in {1} |-> StartCall("inventory", "app")]
  /\ now = StartNow
  /\ storage = Absent
  /\ storageFails = FALSE
  /\ mounted = TRUE
  /\ cancelled = FALSE
  /\ inventoryState = InitialInventory
  /\ leadForm = EmptyLead
  /\ leadErrors = NoErrors
  /\ leadSubmitState = MountLeadSubmitState
  /\ resourceModalOpen = FALSE
  /\ selectedResource = "resource-01"
  /\ resourceForm = EmptyResource
  /\ resourceErrors = NoErrors
  /\ resourceSubmitState = InitialResourceSubmit
  /\ filters = NoFilters
  /\ lastEvent = [type |-> "mount"]

NextInventory ==
  \/ InventoryRespond
  \/ InventoryMockSettle
  \/ SetMaxPrice
  \/ ClearFilters
  \/ Unmount

SpecInventory == InitInventory /\ [][NextInventory]_vars
(***************************************************************************)
(* App: the lead form (App.test.js:308-349, 1009-1251)                     *)
(***************************************************************************)
\* the onChange handlers of the lead form's fields: the form values become v
LeadChange ==
  \E v \in LeadForms :
    /\ mounted
    /\ leadForm' = v
    /\ lastEvent' = [type |-> "leadChange"]
    /\ UNCHANGED <<API_BASE, calls, clockVars, invVars, leadErrors,
                   leadSubmitState, resVars, filters>>

\* App.test.js:308-327  a submit event on the lead form, up to the await
LeadSubmit ==
  LET remaining == getLeadSubmissionCooldownRemainingMs(DEFAULT_WINDOW_MS)
      errs == validateLeadForm(leadForm)
      branch == handleLeadSubmit(remaining, leadSubmitState.status, errs)
  IN /\ mounted
     /\ branch = "submit" => Cardinality(DOMAIN calls) < MaxInFlight
     /\ leadSubmitState' =
          CASE branch = "blocked" ->
                 [status |-> "blocked", message |-> BlockedMessage]
            [] branch = "submit" -> [status |-> "submitting", message |-> ""]
            [] OTHER -> leadSubmitState
     /\ leadErrors' = IF branch \in {"invalid", "submit"} THEN errs
                      ELSE leadErrors
     /\ calls' =
          IF branch = "submit"
            THEN AddCall([StartCall("lead", "app") EXCEPT !.payload =
                            [form |-> leadForm, source |-> "landing_page"]])
            ELSE calls
     /\ lastEvent' = [type |-> "leadSubmit",
                      status |-> leadSubmitState.status,
                      remaining |-> remaining]
     /\ UNCHANGED <<API_BASE, clockVars, invVars, leadForm, resVars, filters>>

\* App.test.js:335-347  handleLeadSubmit resumed with the settled call
LeadContinue_NoMark(call) ==
  IF call.state = "fulfilled"
    THEN /\ storage' = storage
         /\ leadSubmitState' =
              [status |-> "success", message |-> LeadSuccessMessage]
  ELSE IF call.state = "rejected"
    THEN /\ storage' = storage
         /\ leadSubmitState' =
              [status |-> "error",
               message |-> MessageOr(call.value, LeadErrorDefault)]
  ELSE UNCHANGED <<storage, leadSubmitState>>

LeadContinue_NoCatch(call) ==
  IF call.state = "fulfilled"
    THEN LET written == markLeadSubmitted
         IN /\ storage' = written
            /\ leadSubmitState' =
                 [status |-> "success", message |-> LeadSuccessMessage]
  ELSE UNCHANGED <<storage, leadSubmitState>>

LeadContinue(call) ==
  IF call.state = "fulfilled"
    THEN LET written == markLeadSubmitted
         IN IF written = StorageRaised
              THEN \* markLeadSubmitted is inside the try: line 341 catches
                   /\ storage' = storage
                   /\ leadSubmitState' =
                        [status |-> "error", message |-> StorageErrorMessage]
              ELSE /\ storage' = written
                   /\ leadSubmitState' =
                        [status |-> "success", message |-> LeadSuccessMessage]
  ELSE IF call.state = "rejected"
    THEN /\ storage' = storage
         /\ leadSubmitState' =
              [status |-> "error",
               message |-> MessageOr(call.value, LeadErrorDefault)]
  ELSE UNCHANGED <<storage, leadSubmitState>>

LeadRespond ==
  \E c \in Pending("lead"), res \in AppResponses :
    /\ calls[c].caller = "app" /\ calls[c].mode = "live"
    /\ LET call == AppResume(calls[c], res)
       IN /\ Keep(c, call) /\ LeadContinue(call)
          /\ lastEvent' = [type |-> "leadResponse", outcome |-> call.state]
    /\ UNCHANGED <<API_BASE, now, storageFails, invVars, leadForm, leadErrors,
                   resVars, filters>>

\* api.js:207  the 650 ms timer of mock mode fires
LeadMockSettle ==
  \E c \in Pending("lead") :
    /\ calls[c].caller = "app" /\ calls[c].mode = "mock"
    /\ LET call == Fulfil(calls[c], MockResult("lead"))
       IN /\ Keep(c, call) /\ LeadContinue(call)
          /\ lastEvent' = [type |-> "leadSettle", outcome |-> call.state]
    /\ UNCHANGED <<API_BASE, now, storageFails, invVars, leadForm, leadErrors,
                   resVars, filters>>

\* App.test.js:1232-1251  the Reset button, disabled while submitting
LeadReset ==
  /\ mounted
  /\ leadSubmitState.status # "submitting"
  /\ leadForm' = EmptyLead
  /\ leadErrors' = NoErrors
  /\ leadSubmitState' = [status |-> "idle", message |-> ""]
  /\ lastEvent' = [type |-> "leadReset"]
  /\ UNCHANGED <<API_BASE, calls, clockVars, invVars, resVars, filters>>

(***************************************************************************)
(* App: the gated-resource modal (App.test.js:229-306, 1444-1628)          *)
(***************************************************************************)
\* App.test.js:229-235  one of the download buttons
OpenResourceModal ==
  \E r \in ResourceIds :
    /\ mounted
    /\ selectedResource' = r
    /\ resourceForm' = EmptyResource
    /\ resourceErrors' = NoErrors
    /\ resourceSubmitState' = InitialResourceSubmit
    /\ resourceModalOpen' = TRUE
    /\ lastEvent' = [type |-> "openResource"]
    /\ UNCHANGED <<API_BASE, calls, clockVars, invVars, leadVars, filters>>

\* App.test.js:1448, 1666, 1693, 1717  Escape, the overlay or a close button
CloseResourceModal ==
  /\ mounted /\ resourceModalOpen
  /\ resourceModalOpen' = FALSE
  /\ lastEvent' = [type |-> "closeResource"]
  /\ UNCHANGED <<API_BASE, calls, clockVars, invVars, leadVars, filters,
                 selectedResource, resourceForm, resourceErrors,
                 resourceSubmitState>>

\* the resource form is rendered while the modal is open and the request has
\* not succeeded (App.test.js:1503-1529, 1690)
ResourceFormShown ==
  mounted /\ resourceModalOpen /\ resourceSubmitState.status # "success"

\* the onChange handlers of the resource form's fields
ResourceChange ==
  \E v \in ResourceForms :
    /\ ResourceFormShown
    /\ resourceForm' = v
    /\ lastEvent' = [type |-> "resourceChange"]
    /\ UNCHANGED <<API_BASE, calls, clockVars, invVars, leadVars, filters,
                   resourceModalOpen, selectedResource, resourceErrors,
                   resourceSubmitState>>

\* App.test.js:275-288  a submit event on the resource form, up to the await
ResourceSubmit ==
  LET errs == validateResourceForm(resourceForm)
      branch == handleResourceSubmit(resourceSubmitState.status, errs)
  IN /\ ResourceFormShown
     /\ branch = "submit" => Cardinality(DOMAIN calls) < MaxInFlight
     /\ resourceSubmitState' =
          IF branch = "submit"
            THEN [status |-> "submitting", message |-> JStr(""),
                  downloadUrl |-> JStr("")]
            ELSE resourceSubmitState
     /\ resourceErrors' = IF branch \in {"invalid", "submit"} THEN errs
                          ELSE resourceErrors
     /\ calls' =
          IF branch = "submit"
            THEN AddCall([StartCall("resource", "app") EXCEPT !.payload =
                            [form |-> resourceForm,
                             resourceId |-> selectedResource]])
            ELSE calls
     /\ lastEvent' = [type |-> "resourceSubmit",
                      status |-> resourceSubmitState.status]
     /\ UNCHANGED <<API_BASE, clockVars, invVars, leadVars, filters,
                    resourceModalOpen, selectedResource, resourceForm>>

\* App.test.js:290-305  handleResourceSubmit resumed with the settled call
ResourceContinue(call) ==
  resourceSubmitState' =
    IF call.state = "fulfilled"
      THEN [status |-> "success",
            message |-> ValueOr(Get(call.value, "message"),
                                JStr(ResourceSuccessDefault)),
            downloadUrl |-> ValueOr(Get(call.value, "downloadUrl"), JStr(""))]
    ELSE IF call.state = "rejected"
      THEN [status |-> "error",
            message |-> JStr(MessageOr(call.value, ResourceErrorDefault)),
            downloadUrl |-> JStr("")]
    ELSE resourceSubmitState

ResourceRespond ==
  \E c \in Pending("resource"), res \in AppResponses :
    /\ calls[c].caller = "app" /\ calls[c].mode = "live"
    /\ LET call == AppResume(calls[c], res)
       IN /\ Keep(c, call) /\ ResourceContinue(call)
          /\ lastEvent' = [type |-> "resourceResponse", outcome |-> call.state]
    /\ UNCHANGED <<API_BASE, clockVars, invVars, leadVars, filters,
                   resourceModalOpen, selectedResource, resourceForm,
                   resourceErrors>>

\* api.js:233  the 650 ms timer of mock mode fires
ResourceMockSettle ==
  \E c \in Pending("resource") :
    /\ calls[c].caller = "app" /\ calls[c].mode = "mock"
    /\ LET call == Fulfil(calls[c], MockResult("resource"))
       IN /\ Keep(c, call) /\ ResourceContinue(call)
          /\ lastEvent' = [type |-> "resourceSettle", outcome |-> call.state]
    /\ UNCHANGED <<API_BASE, clockVars, invVars, leadVars, filters,
                   resourceModalOpen, selectedResource, resourceForm,
                   resourceErrors>>

(***************************************************************************)
(* The environment of the lead throttle                                    *)
(***************************************************************************)
\* time passes
Tick ==
  /\ now + HalfWindow <= StartNow + MaxTicks * HalfWindow
  /\ now' = now + HalfWindow
  /\ lastEvent' = [type |-> "tick"]
  /\ UNCHANGED <<API_BASE, calls, storage, storageFails, invVars, leadVars,
                 resVars, filters>>

\* another tab of the same site records a lead submission of its own
OtherTabMarks ==
  /\ ~storageFails
  /\ storage' = Text(StringOf(now))
  /\ lastEvent' = [type |-> "otherTabMarks"]
  /\ UNCHANGED <<API_BASE, calls, now, storageFails, invVars, leadVars,
                 resVars, filters>>

\* the user clears the site's storage
StorageCleared ==
  /\ ~storageFails
  /\ storage # Absent
  /\ storage' = Absent
  /\ lastEvent' = [type |-> "storageCleared"]
  /\ UNCHANGED <<API_BASE, calls, now, storageFails, invVars, leadVars,
                 resVars, filters>>

\* the App some time after mounting: the inventory load has finished
LoadedInventory ==
  IF hasApiBase
    THEN [loading |-> FALSE, source |-> "api", warning |-> "", error |-> "",
          items |-> <<ItemX>>]
    ELSE [loading |-> FALSE, source |-> "mock", warning |-> "", error |-> "",
          items |-> getMockInventory]

InitLead ==
  /\ API_BASE \in {<<>>, LiveBase}
  /\ calls = NoCalls
  /\ now = StartNow
  /\ storage \in InitialStorage
  /\ storageFails \in BOOLEAN
  /\ mounted = TRUE
  /\ cancelled = FALSE
  /\ inventoryState = LoadedInventory
  /\ leadForm = EmptyLead
  /\ leadErrors = NoErrors
  /\ leadSubmitState = MountLeadSubmitState
  /\ resourceModalOpen = FALSE
  /\ selectedResource = "resource-01"
  /\ resourceForm = EmptyResource
  /\ resourceErrors = NoErrors
  /\ resourceSubmitState = InitialResourceSubmit
  /\ filters = NoFilters
  /\ lastEvent = [type |-> "mount"]

NextLead ==
  \/ LeadChange
  \/ LeadSubmit
  \/ LeadRespond
  \/ LeadMockSettle
  \/ LeadReset
  \/ Tick
  \/ OtherTabMarks
  \/ StorageCleared

SpecLead == InitLead /\ [][NextLead]_vars

(***************************************************************************)
(* The lead form with a working storage that nothing but the page writes,  *)
(* across reloads of the page.                                             *)
(***************************************************************************)
\* the browser reloads the page: the calls of the old page are gone with it,
\* the state starts from its initial values (App.test.js:123-137) and the
\* mount effects run (App.test.js:178-187); the storage is kept
Reload ==
  /\ mounted
  /\ calls' = NoCalls
  /\ leadForm' = EmptyLead
  /\ leadErrors' = NoErrors
  /\ leadSubmitState' = MountLeadSubmitState
  /\ lastEvent' = [type |-> "reload"]
  /\ UNCHANGED <<API_BASE, clockVars, invVars, resVars, filters>>

InitCooldown == InitLead /\ storageFails = FALSE

NextCooldown ==
  \/ LeadChange
  \/ LeadSubmit
  \/ LeadRespond
  \/ LeadMockSettle
  \/ LeadReset
  \/ Reload
  \/ Tick

SpecCooldown == InitCooldown /\ [][NextCooldown]_vars

InitResource ==
  /\ API_BASE \in {<<>>, LiveBase}
  /\ calls = NoCalls
  /\ now = StartNow
  /\ storage = Absent
  /\ storageFails = FALSE
  /\ mounted = TRUE
  /\ cancelled = FALSE
  /\ inventoryState = LoadedInventory
  /\ leadForm = EmptyLead
  /\ leadErrors = NoErrors
  /\ leadSubmitState = MountLeadSubmitState
  /\ resourceModalOpen = FALSE
  /\ selectedResource = "resource-01"
  /\ resourceForm = EmptyResource
  /\ resourceErrors = NoErrors
  /\ resourceSubmitState = InitialResourceSubmit
  /\ filters = NoFilters
  /\ lastEvent = [type |-> "mount"]

NextResource ==
  \/ OpenResourceModal
  \/ CloseResourceModal
  \/ ResourceChange
  \/ ResourceSubmit
  \/ ResourceRespond
  \/ ResourceMockSettle

SpecResource == InitResource /\ [][NextResource]_vars

(***************************************************************************)
(* The two forms in one specification.  The forms share no state (the lead *)
(* form owns leadVars and the storage key, the modal owns resVars, and a   *)
(* call belongs to the form that made it), so a run in which the user      *)
(* works with both is an interleaving of a run of each; SpecForms explores *)
(* the runs in which the user, after the mount, keeps to one of the forms. *)
(***************************************************************************)
ResourceEvents ==
  {"openResource", "closeResource", "resourceChange", "resourceSubmit",
   "resourceResponse", "resourceSettle"}

\* the user has not touched the resource modal
LeadTurn == lastEvent.type \notin ResourceEvents
\* the user has not touched the lead form: the modal is explored from the
\* mount state of SpecResource
ResourceTurn == lastEvent.type \in ResourceEvents \/ InitResource

NextForms ==
  \/ LeadTurn /\ LeadChange
  \/ LeadTurn /\ LeadSubmit
  \/ LeadTurn /\ LeadRespond
  \/ LeadTurn /\ LeadMockSettle
  \/ LeadTurn /\ LeadReset
  \/ LeadTurn /\ Tick
  \/ LeadTurn /\ OtherTabMarks
  \/ LeadTurn /\ StorageCleared
  \/ ResourceTurn /\ OpenResourceModal
  \/ ResourceTurn /\ CloseResourceModal
  \/ ResourceTurn /\ ResourceChange
  \/ ResourceTurn /\ ResourceSubmit
  \/ ResourceTurn /\ ResourceRespond
  \/ ResourceTurn /\ ResourceMockSettle

SpecForms == InitLead /\ [][NextForms]_vars

(***************************************************************************)
(* The App with every request answered in the end: the inventory load and  *)
(* the two forms, a run keeping to one of the three.  A request that is    *)
(* pending gets its response, and a pending timer of mock mode fires       *)
(* (api.js:207, 233); nothing else is required of the run.  The clock      *)
(* stands still in these runs: a cooldown starts and ends by the storage   *)
(* being written and cleared.                                              *)
(***************************************************************************)
InventoryEvents ==
  {"inventoryResponse", "inventorySettle", "setMaxPrice", "clearFilters",
   "unmount"}

\* the run is one of the inventory load
InventoryTurn == inventoryState.loading \/ lastEvent.type \in InventoryEvents
\* the run is one of the lead form
LeadOnlyTurn == LeadTurn /\ ~InventoryTurn

\* the most calls in flight at once in the runs explored to their end
MaxLiveCalls == 1

\* a submit event would start a call (App.test.js:311-327, 276-283)
LeadSubmitStarts ==
  handleLeadSubmit(getLeadSubmissionCooldownRemainingMs(DEFAULT_WINDOW_MS),
                   leadSubmitState.status, validateLeadForm(leadForm)) = "submit"
ResourceSubmitStarts ==
  handleResourceSubmit(resourceSubmitState.status,
                       validateResourceForm(resourceForm)) = "submit"

\* a submit that starts a call finds room for it
LiveRoom(starts) == starts => Cardinality(DOMAIN calls) < MaxLiveCalls

NextLive ==
  \/ InventoryTurn /\ InventoryRespond
  \/ InventoryTurn /\ InventoryMockSettle
  \/ InventoryTurn /\ SetMaxPrice
  \/ InventoryTurn /\ ClearFilters
  \/ InventoryTurn /\ Unmount
  \/ LeadOnlyTurn /\ LeadChange
  \/ LeadOnlyTurn /\ LiveRoom(LeadSubmitStarts) /\ LeadSubmit
  \/ LeadOnlyTurn /\ LeadRespond
  \/ LeadOnlyTurn /\ LeadMockSettle
  \/ LeadOnlyTurn /\ LeadReset
  \/ LeadOnlyTurn /\ OtherTabMarks
  \/ LeadOnlyTurn /\ StorageCleared
  \/ ResourceTurn /\ OpenResourceModal
  \/ ResourceTurn /\ CloseResourceModal
  \/ ResourceTurn /\ ResourceChange
  \/ ResourceTurn /\ LiveRoom(ResourceSubmitStarts) /\ ResourceSubmit
  \/ ResourceTurn /\ ResourceRespond
  \/ ResourceTurn /\ ResourceMockSettle

\* every pending request completes, every pending timer fires
RequestsComplete ==
  /\ WF_vars(InventoryRespond \/ InventoryMockSettle)
  /\ WF_vars(LeadRespond \/ LeadMockSettle)
  /\ WF_vars(ResourceRespond \/ ResourceMockSettle)

SpecLive ==
  /\ InitInventory \/ InitLead
  /\ [][NextLive]_vars
  /\ RequestsComplete

(***************************************************************************)
(* App: the inventory filters (App.test.js:50-60, 198-217, 628-731).  The  *)
(* items of this part carry their texts as Text(chars), since the search   *)
(* matches inside them.                                                    *)
(***************************************************************************)
UpperCase ==
  <<"A", "B", "C", "D", "E", "F", "G", "H", "I", "J", "K", "L", "M",
    "N", "O", "P", "Q", "R", "S", "T", "U", "V", "W", "X", "Y", "Z">>
LowerCase ==
  <<"a", "b", "c", "d", "e", "f", "g", "h", "i", "j", "k", "l", "m",
    "n", "o", "p", "q", "r", "s", "t", "u", "v", "w", "x", "y", "z">>

\* String.prototype.toLowerCase
toLowerCase(s) ==
  [i \in 1..Len(s) |->
     IF \E k \in 1..26 : UpperCase[k] = s[i]
       THEN LowerCase[CHOOSE k \in 1..26 : UpperCase[k] = s[i]]
       ELSE s[i]]

\* App.test.js:50-52  normalizeStr of a text
normalizeStr(chars) == toLowerCase(Trim(chars))

\* ${v || ""} in a template literal
TemplatePart(v) ==
  IF ~ValueTruthy(v) THEN <<>>
  ELSE IF v.type = "string" THEN v.chars
  ELSE StringOf(v.num)

\* String.prototype.includes
includes(haystack, q) ==
  \E i \in 0..(Len(haystack) - Len(q)) : SubSeq(haystack, i + 1, i + Len(q)) = q

\* Number(v) for a value of an item
NumberOfValue(v) ==
  CASE v.type = "number" -> Finite(v.num)
    [] v.type = "string" -> NumberOf(v.chars)
    [] v.type = "null" -> Finite(0)
    [] OTHER -> NaN

Infinity == [finite |-> FALSE]

\* App.test.js:210-212  the text the query is searched in
Haystack(car) ==
  normalizeStr(TemplatePart(Get(car, "title")) \o <<" ">>
                 \o TemplatePart(Get(car, "make")) \o <<" ">>
                 \o TemplatePart(Get(car, "model")) \o <<" ">>
                 \o TemplatePart(Get(car, "body")) \o <<" ">>
                 \o TemplatePart(Get(car, "year")))

\* App.test.js:198-217  whether the filter callback keeps the car
Keeps_StrictPrice(car) ==
  LET q == normalizeStr(filters.query)
      max == IF filters.maxPrice = AnyOption THEN Infinity
             ELSE NumberOf(filters.maxPrice)
      makeOk == filters.make = AllOption \/ Get(car, "make") = Text(filters.make)
      bodyOk == filters.body = AllOption \/ Get(car, "body") = Text(filters.body)
      priceNum == NumberOfValue(Get(car, "price"))
      priceOk == IF ~max.finite THEN TRUE
                 ELSE (IF priceNum.finite THEN priceNum.num ELSE 0) < max.num
      qOk == q = <<>> \/ includes(Haystack(car), q)
  IN makeOk /\ bodyOk /\ priceOk /\ qOk

Keeps_NoSentinel(car) ==
  LET q == normalizeStr(filters.query)
      max == IF filters.maxPrice = AnyOption THEN Infinity
             ELSE NumberOf(filters.maxPrice)
      makeOk == Get(car, "make") = Text(filters.make)
      bodyOk == Get(car, "body") = Text(filters.body)
      priceNum == NumberOfValue(Get(car, "price"))
      priceOk == IF ~max.finite THEN TRUE
                 ELSE (IF priceNum.finite THEN priceNum.num ELSE 0) <= max.num
      qOk == q = <<>> \/ includes(Haystack(car), q)
  IN makeOk /\ bodyOk /\ priceOk /\ qOk

Keeps(car) ==
  LET q == normalizeStr(filters.query)
      max == IF filters.maxPrice = AnyOption THEN Infinity
             ELSE NumberOf(filters.maxPrice)
      makeOk == filters.make = AllOption \/ Get(car, "make") = Text(filters.make)
      bodyOk == filters.body = AllOption \/ Get(car, "body") = Text(filters.body)
      priceNum == NumberOfValue(Get(car, "price"))
      priceOk == IF ~max.finite THEN TRUE
                 ELSE (IF priceNum.finite THEN priceNum.num ELSE 0) <= max.num
      qOk == q = <<>> \/ includes(Haystack(car), q)
  IN makeOk /\ bodyOk /\ priceOk /\ qOk

\* App.test.js:198-217
filteredInventory == SelectSeq(inventoryState.items, Keeps)

\* App.test.js:54-60  the values getUniqueValues collects for a key
UniqueValues(items, key) ==
  {Trim(Get(items[i], key).chars) :
     i \in {j \in 1..Len(items) :
              /\ Get(items[j], key).type = "string"
              /\ Trim(Get(items[j], key).chars) # <<>>}}

\* the most items of a loaded inventory
MaxItems == 2

Kia == <<"K", "i", "a">>
SUV == <<"S", "U", "V">>

\* the items a backend may serve
FilterItems ==
  { JObj([title |-> Text(<<"R", "i", "o">>), make |-> Text(Kia),
          model |-> Text(<<"R", "i", "o">>), body |-> Text(SUV),
          year |-> JNum(2022), price |-> JNum(25000)]),
    JObj([make |-> Text(<<"k", "i", "a">>), body |-> Text(<<"C", "a", "r">>),
          price |-> Text(<<"2", "4", "0", "0", "0">>)]),
    JObj([title |-> Text(<<"A", "4", " ">>), make |-> Text(<<" ", "K", "i", "a">>),
          body |-> Text(SUV), year |-> JNum(0),
          price |-> Text(<<"c", "a", "l", "l">>)]),
    JObj([title |-> JNum(22), model |-> Text(<<"s", "u", "v">>),
          price |-> JNum(25001)]) }

\* what the user types in the search box
Queries ==
  { <<>>, <<" ">>, <<"K", "I", "A", " ">>, <<"2", "2">>,
    <<"r", "i", "o", " ", "s", "u", "v">>, <<"i", "a", " ", " ", "s">>,
    <<"z">> }

RECURSIVE ItemLists(_)
ItemLists(n) ==
  IF n = 0 THEN {<<>>}
  ELSE ItemLists(n - 1)
         \cup {Append(l, it) : l \in {m \in ItemLists(n - 1) : Len(m) = n - 1},
                                it \in FilterItems}

\* App.test.js:634-642  the search box changes
SetQuery ==
  \E v \in Queries :
    /\ mounted
    /\ filters' = [filters EXCEPT !.query = v]
    /\ lastEvent' = [type |-> "setQuery"]
    /\ UNCHANGED <<API_BASE, calls, clockVars, invVars, leadVars, resVars>>

\* App.test.js:650-663  the Make select changes to one of its options
SetMake ==
  \E v \in {AllOption} \cup UniqueValues(inventoryState.items, "make") :
    /\ mounted
    /\ filters' = [filters EXCEPT !.make = v]
    /\ lastEvent' = [type |-> "setMake"]
    /\ UNCHANGED <<API_BASE, calls, clockVars, invVars, leadVars, resVars>>

\* App.test.js:671-684  the Body select changes to one of its options
SetBody ==
  \E v \in {AllOption} \cup UniqueValues(inventoryState.items, "body") :
    /\ mounted
    /\ filters' = [filters EXCEPT !.body = v]
    /\ lastEvent' = [type |-> "setBody"]
    /\ UNCHANGED <<API_BASE, calls, clockVars, invVars, leadVars, resVars>>

\* the App after its inventory load, with the items the backend served
InitFilter ==
  /\ API_BASE = LiveBase
  /\ calls = NoCalls
  /\ now = StartNow
  /\ storage = Absent
  /\ storageFails = FALSE
  /\ mounted = TRUE
  /\ cancelled = FALSE
  /\ inventoryState \in
       {[loading |-> FALSE, source |-> "api", warning |-> "", error |-> "",
         items |-> l] : l \in ItemLists(MaxItems)}
  /\ leadForm = EmptyLead
  /\ leadErrors = NoErrors
  /\ leadSubmitState = [status |-> "idle", message |-> ""]
  /\ resourceModalOpen = FALSE
  /\ selectedResource = "resource-01"
  /\ resourceForm = EmptyResource
  /\ resourceErrors = NoErrors
  /\ resourceSubmitState = InitialResourceSubmit
  /\ filters = NoFilters
  /\ lastEvent = [type |-> "mount"]

NextFilter ==
  \/ SetQuery
  \/ SetMake
  \/ SetBody
  \/ SetMaxPrice
  \/ ClearFilters

SpecFilter == InitFilter /\ [][NextFilter]_vars

(***************************************************************************)
(* Direct calls of the two throttle functions (utils/validation.js:47-70)  *)
(* as time passes.  lastEvent keeps, besides the step taken, the instant   *)
(* of the last markLeadSubmitted that found the storage working and the    *)
(* last reading made since.                                                *)
(***************************************************************************)
QuarterWindow == DEFAULT_WINDOW_MS \div 4

\* the windows a caller asks for; the default comes first
ThrottleWindows == {DEFAULT_WINDOW_MS, HalfWindow, 1}

\* what the storage key holds before the first call
ThrottleStorage ==
  { Absent, Text(<<>>), Text(<<" ">>), Text(<<"a", "b", "c">>),
    Text(<<"1", " ", "2">>), Text(StringOf(0)),
    Text(StringOf(StartNow - HalfWindow)),
    Text(StringOf(StartNow + QuarterWindow)) }

NoMark == 0 - 1
NoReading == [windowMs |-> 0, readAt |-> 0 - 1, result |-> 0]

InitThrottle ==
  /\ API_BASE = <<>>
  /\ calls = NoCalls
  /\ now = StartNow
  /\ storage \in ThrottleStorage
  /\ storageFails \in BOOLEAN
  /\ mounted = FALSE
  /\ cancelled = FALSE
  /\ inventoryState = InitialInventory
  /\ leadForm = EmptyLead
  /\ leadErrors = NoErrors
  /\ leadSubmitState = [status |-> "idle", message |-> ""]
  /\ resourceModalOpen = FALSE
  /\ selectedResource = "resource-01"
  /\ resourceForm = EmptyResource
  /\ resourceErrors = NoErrors
  /\ resourceSubmitState = InitialResourceSubmit
  /\ filters = NoFilters
  /\ lastEvent = [type |-> "init", markedAt |-> NoMark, reading |-> NoReading]

\* validation.js:47  getLeadSubmissionCooldownRemainingMs(windowMs) is called
CallGetCooldown ==
  \E w \in ThrottleWindows :
    /\ lastEvent' =
         [type |-> "getCooldown", markedAt |-> lastEvent.markedAt,
          reading |-> [windowMs |-> w, readAt |-> now,
                       result |-> getLeadSubmissionCooldownRemainingMs(w)]]
    /\ UNCHANGED <<apiVars, clockVars, invVars, leadVars, resVars, filters>>

\* validation.js:63  markLeadSubmitted() is called
CallMarkLeadSubmitted ==
  /\ storage' = markLeadSubmitted
  /\ lastEvent' =
       [type |-> "markLeadSubmitted",
        markedAt |-> IF storageFails THEN lastEvent.markedAt ELSE now,
        reading |-> NoReading]
  /\ UNCHANGED <<apiVars, now, storageFails, invVars, leadVars, resVars,
                 filters>>

\* time passes, a quarter of the default window at a time
ThrottleTick ==
  /\ now + QuarterWindow <= StartNow + MaxTicks * HalfWindow
  /\ now' = now + QuarterWindow
  /\ lastEvent' = [lastEvent EXCEPT !.type = "tick"]
  /\ UNCHANGED <<apiVars, storage, storageFails, invVars, leadVars, resVars,
                 filters>>

NextThrottle ==
  \/ CallGetCooldown
  \/ CallMarkLeadSubmitted
  \/ ThrottleTick

SpecThrottle == InitThrottle /\ [][NextThrottle]_vars

(***************************************************************************)
(* Direct calls of the four field validators (utils/validation.js:10-41)   *)
(* with raw values of every type.  lastEvent keeps the call and how it     *)
(* ended: the string returned, or the TypeError raised.                    *)
(***************************************************************************)
\* the raw values a caller may pass
RawValues ==
  { Undefined, JNull, JBool(FALSE), JBool(TRUE), JNum(0), JNum(7),
    JArr(<<>>), JObj([name |-> JStr("x")]),
    Text(<<>>), Text(<<" ">>), Text(<<"a", "b">>),
    Text(<<" ", "a", "@", "b", ".", "c", "o">>),
    Text(<<"5", "5", "5", "-", "1", "2", "3", "4">>),
    Text(<<"h", "e", "l", "l", "o", " ", "w", "o", "r", "l", "d">>) }

\* the lengths and field names validateMinLen is called with
MinLens == {0, 3, 10}
FieldNames == {"This field", "Message"}

\* how a call of a validator ended, from what its definition gives
Ended(r) ==
  IF r = TypeErrorThrown THEN [threw |-> TRUE, message |-> r]
  ELSE [threw |-> FALSE, returned |-> r]

ValidatorCalled(fn, value, rest, r) ==
  /\ lastEvent' = [type |-> "validate", fn |-> fn, value |-> value,
                   rest |-> rest, end |-> Ended(r)]
  /\ UNCHANGED <<apiVars, clockVars, invVars, leadVars, resVars, filters>>

CallValidateRequired ==
  \E v \in RawValues :
    ValidatorCalled("validateRequired", v, <<>>, validateRequired(v))

CallValidateEmail ==
  \E v \in RawValues :
    ValidatorCalled("validateEmail", v, <<>>, validateEmail(v))

CallValidatePhoneOptional ==
  \E v \in RawValues :
    ValidatorCalled("validatePhoneOptional", v, <<>>,
                    validatePhoneOptional(v))

CallValidateMinLen ==
  \E v \in RawValues, min \in MinLens, fieldName \in FieldNames :
    ValidatorCalled("validateMinLen", v, <<min, fieldName>>,
                    validateMinLen(v, min, fieldName))

InitValidators ==
  /\ API_BASE = <<>>
  /\ calls = NoCalls
  /\ now = StartNow
  /\ storage = Absent
  /\ storageFails = FALSE
  /\ mounted = FALSE
  /\ cancelled = FALSE
  /\ inventoryState = InitialInventory
  /\ leadForm = EmptyLead
  /\ leadErrors = NoErrors
  /\ leadSubmitState = [status |-> "idle", message |-> ""]
  /\ resourceModalOpen = FALSE
  /\ selectedResource = "resource-01"
  /\ resourceForm = EmptyResource
  /\ resourceErrors = NoErrors
  /\ resourceSubmitState = InitialResourceSubmit
  /\ filters = NoFilters
  /\ lastEvent = [type |-> "init"]

NextValidators ==
  \/ CallValidateRequired
  \/ CallValidateEmail
  \/ CallValidatePhoneOptional
  \/ CallValidateMinLen

SpecValidators == InitValidators /\ [][NextValidators]_vars

(***************************************************************************)
(* Properties of the candidate resolution (SpecApi)                        *)
(***************************************************************************)
LiveCalls == {c \in DOMAIN calls : calls[c].mode = "live"}

\* a 2xx response whose body is an array, or an object with an array under
\* items
HasItems(res) ==
  /\ res.fetch = "response" /\ res.status \in 200..299
  /\ res.body.text = "json"
  /\ \/ res.body.value.type = "array"
     \/ /\ res.body.value.type = "object"
        /\ "items" \in DOMAIN res.body.value.fields
        /\ res.body.value.fields.items.type = "array"

\* the array such a response carries
ItemsIn(res) ==
  IF res.body.value.type = "array" THEN res.body.value.elems
  ELSE res.body.value.fields.items.elems

\* a response with which the candidate fails: a read needs a 2xx with items,
\* a write any 2xx
Non2xx(res) == res.fetch = "rejected" \/ res.status \notin 200..299
FailsFor(kind, res) ==
  IF kind = "inventory" THEN ~HasItems(res) ELSE Non2xx(res)

\* C1: in a live call the requests are the candidate paths in their listed
\* order, at most one request is outstanding (requests issued minus responses
\* received), and every request but the last has been answered by a response
\* that was a failure.
C1_SequentialInOrder ==
  \A c \in LiveCalls :
    LET call == calls[c]
        n == Len(call.sent)
    IN /\ n \in 1..Len(Candidates(call.kind))
       /\ call.sent = SubSeq(Candidates(call.kind), 1, n)
       /\ n - Len(call.log) \in {0, 1}
       /\ (call.state = "pending") = (n - Len(call.log) = 1)
       /\ \A i \in 1..(n - 1) : FailsFor(call.kind, call.log[i])

C1_Witness ==
  \E c \in LiveCalls :
    /\ calls[c].kind = "lead" /\ calls[c].state = "pending"
    /\ Len(calls[c].sent) = 4 /\ Len(calls[c].log) = 3

\* C2: in one call no candidate path is requested twice, at most 4 requests
\* are issued, and when the k-th response is the first success exactly k
\* requests have been issued.
C2_OnceEachShortCircuit ==
  \A c \in LiveCalls :
    LET call == calls[c]
    IN /\ \A i, j \in 1..Len(call.sent) :
            call.sent[i] = call.sent[j] => i = j
       /\ Len(call.sent) <= 4
       /\ \A k \in 1..Len(call.log) :
            ~FailsFor(call.kind, call.log[k]) =>
               /\ Len(call.sent) = k
               /\ call.state = "fulfilled"

C2_Witness ==
  \E c \in LiveCalls :
    /\ calls[c].state = "fulfilled"
    /\ Len(calls[c].sent) = 2 /\ Len(calls[c].log) = 2
    /\ FailsFor(calls[c].kind, calls[c].log[1])

\* C3: in fetchInventory a non-2xx or wrongly shaped answer only fails its
\* candidate: the next candidate is requested, and once a candidate answers
\* with an array or {items: array} the result is {source: "api", items: that
\* array}, without a warning field, whatever came before.
C3_ShapeFailureContinues ==
  \A c \in LiveCalls :
    LET call == calls[c]
        n == Len(call.log)
    IN call.kind = "inventory" =>
         /\ \A i \in 1..n :
              (~HasItems(call.log[i]) /\ i < 4) => Len(call.sent) >= i + 1
         /\ (n >= 1 /\ HasItems(call.log[n])) =>
              /\ call.state = "fulfilled"
              /\ call.value = [source |-> "api", items |-> ItemsIn(call.log[n])]

C3_Witness ==
  \E c \in LiveCalls :
    /\ calls[c].kind = "inventory" /\ calls[c].state = "fulfilled"
    /\ Len(calls[c].log) = 3
    /\ Non2xx(calls[c].log[1])
    /\ ~Non2xx(calls[c].log[2]) /\ ~HasItems(calls[c].log[2])
    /\ calls[c].value.source = "api"

\* the messages of the errors a call saw, in order: one per response that made
\* requestJson throw
ThrownAt(log) == {i \in 1..Len(log) : Non2xx(log[i])}
LastThrownMessage(log) ==
  LET last == CHOOSE i \in ThrownAt(log) : \A j \in ThrownAt(log) : j <= i
  IN requestJson(log[last]).err.message

AllReadsFailed(call) ==
  /\ call.kind = "inventory" /\ call.mode = "live"
  /\ Len(call.log) = 4
  /\ \A i \in 1..4 : ~HasItems(call.log[i])

\* C4 as claimed: when every read candidate fails, the result is the static
\* dataset with source "mock" and a non-empty warning that is the message of
\* the last error seen during the call.
C4_WarningIsLastError ==
  \A c \in DOMAIN calls :
    AllReadsFailed(calls[c]) =>
      /\ calls[c].state = "fulfilled"
      /\ calls[c].value.source = "mock"
      /\ calls[c].value.items = getMockInventory
      /\ calls[c].value.warning # ""
      /\ ThrownAt(calls[c].log) # {}
      /\ calls[c].value.warning = LastThrownMessage(calls[c].log)

\* C4 amended: when every read candidate fails, the result is the static
\* dataset with source "mock" and a non-empty warning: the message of the last
\* candidate that threw (network failure or non-2xx) when there is one and its
\* message is not empty, and the fixed default text otherwise.
C4_WarningLastThrownOrDefault ==
  \A c \in DOMAIN calls :
    AllReadsFailed(calls[c]) =>
      /\ calls[c].state = "fulfilled"
      /\ calls[c].value.source = "mock"
      /\ calls[c].value.items = getMockInventory
      /\ calls[c].value.warning # ""
      /\ calls[c].value.warning =
           IF ThrownAt(calls[c].log) # {}
              /\ LastThrownMessage(calls[c].log) # ""
             THEN LastThrownMessage(calls[c].log)
             ELSE "Backend inventory endpoint unavailable; using mock inventory."

C4_Witness ==
  \E c \in DOMAIN calls :
    /\ AllReadsFailed(calls[c])
    /\ Non2xx(calls[c].log[3]) /\ ~Non2xx(calls[c].log[4])
    /\ calls[c].value.warning = "Request failed (404 Not Found)"

\* C6: when every write candidate fails, submitLead and
\* submitGatedResourceRequest reject with the error of the last candidate
\* attempted, message and status, and return no success result.
C6_WriteExhaustionRejectsLast ==
  \A c \in LiveCalls :
    LET call == calls[c]
    IN (/\ call.kind \in {"lead", "resource"}
        /\ Len(call.log) = 4
        /\ \A i \in 1..4 : Non2xx(call.log[i])) =>
         /\ call.state = "rejected"
         /\ call.value = requestJson(call.log[4]).err

C6_Witness ==
  \E c \in LiveCalls :
    /\ calls[c].kind = "lead" /\ calls[c].state = "rejected"
    /\ Len(calls[c].log) = 4
    /\ calls[c].log[1] = NetFail
    /\ calls[c].value.message = "m1"

\* the base URL is unset, empty or whitespace only
Unconfigured == \A i \in 1..Len(API_BASE) : API_BASE[i] \in Whitespace

\* C7: with no base URL configured no call ever issues a request: a read
\* returns {source: "mock", items: static dataset} without a warning, a write
\* resolves to a success with source "mock".
C7_MockModeNoNetwork ==
  Unconfigured =>
    \A c \in DOMAIN calls :
      /\ calls[c].sent = <<>> /\ calls[c].log = <<>>
      /\ calls[c].state # "rejected"
      /\ calls[c].state = "fulfilled" =>
           CASE calls[c].kind = "inventory" ->
                  calls[c].value = [source |-> "mock", items |-> getMockInventory]
             [] calls[c].kind = "lead" ->
                  calls[c].value.ok /\ calls[c].value.source = "mock"
             [] calls[c].kind = "resource" ->
                  /\ calls[c].value.fields.ok = JBool(TRUE)
                  /\ calls[c].value.fields.source = JStr("mock")

C7_Witness ==
  /\ API_BASE = <<" ">>
  /\ \E c \in DOMAIN calls :
       /\ calls[c].kind = "lead" /\ calls[c].state = "fulfilled"
       /\ calls[c].value.source = "mock"

(***************************************************************************)
(* Properties of the inventory load (SpecInventory)                        *)
(***************************************************************************)
\* C5: fetchInventory never rejects, so the inventory state never shows an
\* error: while loading it is the initial state, and afterwards its source is
\* "mock" or "api", its error is empty and its items are a sequence.
C5_LoadNeverFails ==
  /\ inventoryState.error = ""
  /\ inventoryState.loading => inventoryState = InitialInventory
  /\ ~inventoryState.loading =>
       /\ inventoryState.source \in {"mock", "api"}
       /\ DOMAIN inventoryState.items = 1..Len(inventoryState.items)

C5_Witness ==
  /\ ~inventoryState.loading
  /\ inventoryState.source = "mock"
  /\ inventoryState.warning = "Failed to fetch"
  /\ lastEvent.type = "inventoryResponse"
(***************************************************************************)
(* Properties of the lead form (SpecLead)                                  *)
(***************************************************************************)
\* the step is a submit event handled by the lead form
IsLeadSubmit == lastEvent'.type = "leadSubmit"

\* C8: a second submit of the lead form that arrives while the first
\* submitLead call is still pending, the form being in submitting, starts no
\* further call: the one call stays the only one.
C8_SecondSubmitStartsNoCall ==
  [][ (/\ IsLeadSubmit
       /\ leadSubmitState.status = "submitting"
       /\ Cardinality(Pending("lead")) = 1)
      => (calls' = calls /\ Cardinality(Pending("lead")) = 1) ]_vars

C8_Witness ==
  /\ lastEvent.type = "leadSubmit"
  /\ lastEvent.status = "submitting"
  /\ leadSubmitState.status = "submitting"
  /\ Cardinality(Pending("lead")) = 1

\* C9 as claimed: a submit event handled while the form's status is
\* submitting changes neither the submit status nor the field errors and
\* starts no request, for the lead form and for the resource form.
C9_SubmitWhileSubmittingIsNoOp ==
  [][ /\ (IsLeadSubmit /\ leadSubmitState.status = "submitting")
          => /\ leadSubmitState' = leadSubmitState
             /\ leadErrors' = leadErrors
             /\ calls' = calls
      /\ (lastEvent'.type = "resourceSubmit"
            /\ resourceSubmitState.status = "submitting")
          => /\ resourceSubmitState' = resourceSubmitState
             /\ resourceErrors' = resourceErrors
             /\ calls' = calls ]_vars

\* C10: a lead-form submit handled while the remaining cooldown is greater
\* than 0 sets the status to blocked and starts no submitLead call, whatever
\* the status was before (idle, or blocked already).
C10_CooldownBlocks ==
  [][ (IsLeadSubmit
       /\ getLeadSubmissionCooldownRemainingMs(DEFAULT_WINDOW_MS) > 0)
      => (leadSubmitState'.status = "blocked" /\ calls' = calls) ]_vars

C10_Witness ==
  /\ lastEvent.type = "leadSubmit"
  /\ lastEvent.status = "idle"
  /\ lastEvent.remaining > 0
  /\ leadSubmitState.status = "blocked"
  /\ leadForm = ValidLead

\* the lead form's values fail validation
LeadInvalid == validateLeadForm(leadForm) # NoErrors

ResourceInvalid == validateResourceForm(resourceForm) # NoErrors

IsResourceSubmit == lastEvent'.type = "resourceSubmit"

LeadSettled(outcome) ==
  lastEvent'.type \in {"leadResponse", "leadSettle"}
  /\ lastEvent'.outcome = outcome
ResourceSettled(outcome) ==
  lastEvent'.type \in {"resourceResponse", "resourceSettle"}
  /\ lastEvent'.outcome = outcome

\* C13 as claimed, for both forms: from submitting the status moves to
\* success exactly when the form's call resolves and to error exactly when it
\* rejects; success and error are entered from submitting only; submitting is
\* entered only by a submit with valid fields and (lead form) no cooldown.
C13_StatusTransitions ==
  [][ /\ (leadSubmitState.status = "submitting" /\ LeadSettled("fulfilled"))
           => leadSubmitState'.status = "success"
      /\ (leadSubmitState.status = "submitting" /\ LeadSettled("rejected"))
           => leadSubmitState'.status = "error"
      /\ (leadSubmitState' # leadSubmitState
            /\ leadSubmitState'.status \in {"success", "error"})
           => /\ leadSubmitState.status = "submitting"
              /\ LeadSettled(IF leadSubmitState'.status = "success"
                               THEN "fulfilled" ELSE "rejected")
      /\ (leadSubmitState' # leadSubmitState
            /\ leadSubmitState'.status = "submitting")
           => /\ IsLeadSubmit /\ ~LeadInvalid
              /\ getLeadSubmissionCooldownRemainingMs(DEFAULT_WINDOW_MS) = 0
      /\ (resourceSubmitState.status = "submitting"
            /\ ResourceSettled("fulfilled"))
           => resourceSubmitState'.status = "success"
      /\ (resourceSubmitState.status = "submitting"
            /\ ResourceSettled("rejected"))
           => resourceSubmitState'.status = "error"
      /\ (resourceSubmitState' # resourceSubmitState
            /\ resourceSubmitState'.status \in {"success", "error"})
           => /\ resourceSubmitState.status = "submitting"
              /\ ResourceSettled(IF resourceSubmitState'.status = "success"
                                   THEN "fulfilled" ELSE "rejected")
      /\ (resourceSubmitState' # resourceSubmitState
            /\ resourceSubmitState'.status = "submitting")
           => IsResourceSubmit /\ ~ResourceInvalid
    ]_vars

\* the step is taken by the environment of the throttle, not by the App
ExternalStorageStep == lastEvent'.type \in {"otherTabMarks", "storageCleared"}

\* C14 as claimed: the App changes the stored timestamp only on the lead
\* form's transition from submitting to success; a lead submit (blocked,
\* invalid, ignored or started), a call that ends in error, a Reset and every
\* step of the resource form leave the stored value as it is, and the App
\* never removes it.
C14_TimestampWrittenOnSuccessOnly ==
  [][ ~ExternalStorageStep =>
        /\ storage' # storage =>
             /\ leadSubmitState.status = "submitting"
             /\ leadSubmitState'.status = "success"
             /\ LeadSettled("fulfilled")
             /\ storage' # Absent
        /\ (\/ IsLeadSubmit
            \/ LeadSettled("rejected")
            \/ lastEvent'.type = "leadReset"
            \/ lastEvent'.type \in ResourceEvents) => storage' = storage
    ]_vars

(***************************************************************************)
(* Properties of the lead throttle (SpecThrottle)                          *)
(***************************************************************************)
\* the stored text is the decimal form of an instant
StoredInstant(t) == storage = Text(StringOf(t))

\* the stored text is no number at all
StoredCorrupt == storage \in {Text(<<"a", "b", "c">>), Text(<<"1", " ", "2">>)}

\* C15: a call of getLeadSubmissionCooldownRemainingMs returns a number that
\* is never negative, and returns 0 when reading the storage throws, when
\* nothing is stored, when the stored text is not a finite number, and when
\* the stored instant lies a full window or more in the past.
C15_CooldownNeverNegative ==
  lastEvent.type = "getCooldown" =>
    LET r == lastEvent.reading
    IN /\ r.result \in Nat
       /\ storageFails => r.result = 0
       /\ storage = Absent => r.result = 0
       /\ StoredCorrupt => r.result = 0
       /\ \A t \in {0, StartNow - HalfWindow, lastEvent.markedAt} :
            (t >= 0 /\ StoredInstant(t) /\ now - t >= r.windowMs)
              => r.result = 0

\* a reading of 0 because the window has elapsed since the stored instant
C15_Witness ==
  /\ lastEvent.type = "getCooldown"
  /\ ~storageFails
  /\ StoredInstant(StartNow - HalfWindow)
  /\ now - (StartNow - HalfWindow) >= lastEvent.reading.windowMs
  /\ now > StartNow
  /\ lastEvent.reading.result = 0

\* C16: after a markLeadSubmitted at t0 that found the storage working, a
\* call of getLeadSubmissionCooldownRemainingMs(windowMs) at t >= t0 returns
\* windowMs - (t - t0) while t - t0 < windowMs and 0 from then on, and of two
\* readings of one window the later one is smaller while the earlier one was
\* above 0.
C16_RemainingAfterMark ==
  [][ (lastEvent'.type = "getCooldown" /\ lastEvent'.markedAt # NoMark) =>
        LET r == lastEvent'.reading
            before == lastEvent.reading
            elapsed == r.readAt - lastEvent'.markedAt
        IN /\ elapsed >= 0
           /\ elapsed < r.windowMs => r.result = r.windowMs - elapsed
           /\ elapsed >= r.windowMs => r.result = 0
           /\ (/\ before.windowMs = r.windowMs
               /\ before.readAt < r.readAt
               /\ before.result > 0) => r.result < before.result
    ]_vars

\* a quarter of the window has gone by since the mark: three quarters remain
C16_Witness ==
  /\ lastEvent.type = "getCooldown"
  /\ lastEvent.markedAt = StartNow + QuarterWindow
  /\ lastEvent.reading.readAt = lastEvent.markedAt + QuarterWindow
  /\ lastEvent.reading.windowMs = DEFAULT_WINDOW_MS
  /\ lastEvent.reading.result = 3 * QuarterWindow

\* C17: with a storage that throws, markLeadSubmitted does not raise: when the
\* submitLead call of a lead submission resolves, the form ends in success,
\* not in error, and the stored value stays as it was.
C17_StorageFailureStillSucceeds ==
  [][ (storageFails /\ LeadSettled("fulfilled"))
      => /\ leadSubmitState' =
              [status |-> "success", message |-> LeadSuccessMessage]
         /\ storage' = storage ]_vars

C17_Witness ==
  /\ storageFails
  /\ lastEvent.type \in {"leadResponse", "leadSettle"}
  /\ lastEvent.outcome = "fulfilled"
  /\ leadSubmitState.status = "success"

(***************************************************************************)
(* Properties of the inventory state (SpecInventory)                       *)
(***************************************************************************)
\* C18: once the App is torn down, the inventory state is never written
\* again, whatever the load's fetchInventory call comes to; the teardown
\* itself leaves the call and its request in flight.
C18_TeardownDiscardsLoad ==
  [][ /\ (cancelled \/ cancelled') => inventoryState' = inventoryState
      /\ lastEvent'.type = "unmount" => calls' = calls ]_vars

\* torn down while loading; the call went on to its end and was discarded
C18_Witness ==
  /\ cancelled
  /\ lastEvent.type = "inventoryResponse"
  /\ calls = NoCalls
  /\ inventoryState = InitialInventory

\* the results a fetchInventory call can come to with the responses of the
\* model: the static dataset in mock mode, the items of a response that has
\* some, or the fallback with the warning of an error or the default one
LoadResults ==
  {MockSnapshot}
    \cup {[source |-> "api", items |-> ItemsIn(res)] :
            res \in {r \in Responses : HasItems(r)}}
    \cup {[source |-> "mock", items |-> getMockInventory, warning |-> w] :
            w \in {DefaultWarning}
                    \cup {requestJson(r).err.message :
                            r \in {x \in Responses : Non2xx(x)}}}

\* the inventory state that shows the result r and nothing else
SnapshotOf(r) ==
  [loading |-> FALSE, source |-> r.source,
   warning |-> IF "warning" \in DOMAIN r THEN r.warning ELSE "",
   error |-> "", items |-> r.items]

WholeSnapshot ==
  IF inventoryState.loading
    THEN /\ inventoryState.source = "unknown"
         /\ inventoryState.items = <<>>
    ELSE \E r \in LoadResults : inventoryState = SnapshotOf(r)

\* C19: in every state the inventory state is either the loading state
\* (source "unknown", no items) or shows source, items and warning of one
\* fetchInventory result; it is written in one step, from loading to loaded.
C19_SnapshotIsWhole ==
  [][ /\ WholeSnapshot
      /\ WholeSnapshot'
      /\ inventoryState' # inventoryState =>
           /\ inventoryState.loading /\ ~inventoryState'.loading
           /\ lastEvent'.type \in {"inventoryResponse", "inventorySettle"}
    ]_vars

\* the fallback was applied whole: mock items with the warning of the error
C19_Witness ==
  /\ ~inventoryState.loading
  /\ inventoryState.source = "mock"
  /\ inventoryState.items = getMockInventory
  /\ inventoryState.warning = "Request failed (404 Not Found)"

(***************************************************************************)
(* Properties of the inventory filters (SpecFilter)                        *)
(***************************************************************************)
\* the text of a field in the search text: empty when the field is missing
FieldText(item, key) ==
  LET v == Get(item, key)
  IN CASE v.type = "string" -> v.chars
       [] v.type = "number" /\ v.num # 0 -> StringOf(v.num)
       [] OTHER -> <<>>

\* title, make, model, body and year joined by spaces, in lower case
SearchText(item) ==
  toLowerCase(FieldText(item, "title") \o <<" ">> \o FieldText(item, "make")
                \o <<" ">> \o FieldText(item, "model") \o <<" ">>
                \o FieldText(item, "body") \o <<" ">> \o FieldText(item, "year"))

\* q occurs in t
IsSubstring(q, t) ==
  \E start \in 1..(Len(t) + 1) :
    \A j \in 1..Len(q) : start + j - 1 <= Len(t) /\ t[start + j - 1] = q[j]

\* the price of an item as a number, 0 when it is not numeric
PriceOf(item) ==
  LET v == Get(item, "price")
  IN CASE v.type = "number" -> v.num
       [] v = Text(<<"2", "4", "0", "0", "0">>) -> 24000
       [] OTHER -> 0

\* the amount of an option of the Max Price select
MaxPriceOf(option) ==
  CASE option = <<"2", "5", "0", "0", "0">> -> 25000
    [] option = <<"3", "0", "0", "0", "0">> -> 30000
    [] option = <<"4", "0", "0", "0", "0">> -> 40000
    [] option = <<"5", "0", "0", "0", "0">> -> 50000

\* the four conditions of the claim
Included(item) ==
  /\ filters.make = AllOption
       \/ (Get(item, "make").type = "string"
             /\ Get(item, "make").chars = filters.make)
  /\ filters.body = AllOption
       \/ (Get(item, "body").type = "string"
             /\ Get(item, "body").chars = filters.body)
  /\ filters.maxPrice = AnyOption
       \/ PriceOf(item) <= MaxPriceOf(filters.maxPrice)
  /\ LET q == toLowerCase(Trim(filters.query))
     IN q = <<>> \/ IsSubstring(q, SearchText(item))

\* C20: the filtered inventory is the items that satisfy the four conditions
\* (make, body, price with a non-numeric price as 0, query in the search
\* text), each as often as it occurs and in the order of the inventory.
C20_FilteredIsSelection ==
  LET items == inventoryState.items
      kept == {i \in 1..Len(items) : Included(items[i])}
      shown == filteredInventory
  IN /\ Len(shown) = Cardinality(kept)
     /\ \E at \in [1..Len(shown) -> kept] :
          /\ \A i, j \in 1..Len(shown) : i < j => at[i] < at[j]
          /\ \A i \in 1..Len(shown) : shown[i] = items[at[i]]

\* two items loaded and the second one shown, with a make, a price limit and
\* a query chosen
C20_Witness ==
  /\ Len(inventoryState.items) = 2
  /\ filters.make = Kia
  /\ filters.maxPrice = <<"2", "5", "0", "0", "0">>
  /\ filters.query = <<"2", "2">>
  /\ Get(inventoryState.items[1], "make") = Text(<<" ", "K", "i", "a">>)
  /\ filteredInventory = <<inventoryState.items[2]>>

\* C21: with every criterion at its sentinel (make "All", body "All", price
\* "Any", empty query) the filtered inventory is the inventory itself, the
\* same items in the same order, whatever fields the items miss; the Clear
\* filters button sets these criteria, so it brings the whole list back.
C21_SentinelsKeepAll ==
  /\ [](filters = NoFilters => filteredInventory = inventoryState.items)
  /\ [][lastEvent'.type = "clearFilters" =>
          /\ filters' = NoFilters
          /\ filteredInventory' = inventoryState.items
          /\ inventoryState' = inventoryState]_vars

\* Clear filters pressed with two items loaded that lack fields: both shown
C21_Witness ==
  /\ lastEvent.type = "clearFilters"
  /\ Len(inventoryState.items) = 2
  /\ Get(inventoryState.items[1], "make") = Undefined
  /\ Get(inventoryState.items[2], "title") = Undefined
  /\ filteredInventory = inventoryState.items

(***************************************************************************)
(* Properties of the field validators (SpecValidators)                     *)
(***************************************************************************)
\* C22 as claimed: every call of validateRequired, validateEmail,
\* validatePhoneOptional and validateMinLen ends by returning a string and
\* none raises, whatever the value passed: undefined, null, a boolean, a
\* number, an array, an object or a string.
C22_ValidatorsNeverThrow ==
  lastEvent.type = "validate" =>
    /\ ~lastEvent.end.threw
    /\ lastEvent.end.returned \in STRING

(***************************************************************************)
(* Properties of requestJson and of the write candidates (SpecApi)         *)
(***************************************************************************)
\* the message that names the status line of a response
StatusLineMessage(res) ==
  "Request failed (" \o ToString(res.status) \o " " \o res.statusText \o ")"

\* the field of a JSON body holds something other than "", 0, false or null
Supplies(text, field) ==
  /\ text.text = "json" /\ text.value.type = "object"
  /\ field \in DOMAIN text.value.fields
  /\ Truthy(text.value.fields[field])

\* the response answers with a status outside 200..299
HttpFailure(res) == res.fetch = "response" /\ res.status \notin 200..299

\* C23: a response with a status outside 2xx makes requestJson throw an
\* error that carries the status of the response, never a parse error: with
\* an empty or non-JSON body the message names the status and the status
\* text; a message field of the body, or else its error field, supplies the
\* message when it holds a value (an empty or null field counts as none).
C23_Non2xxErrorKeepsStatus ==
  \A c \in LiveCalls :
    LET call == calls[c]
        n == Len(call.log)
    IN (n >= 1 /\ HttpFailure(call.log[n])) =>
         LET res == call.log[n]
             err == call.lastErr
         IN /\ err # NoErr
            /\ err.status = res.status
            /\ res.body.text \in {"empty", "garbage"}
                 => err.message = StatusLineMessage(res)
            /\ Supplies(res.body, "message")
                 => err.message = ToStr(res.body.value.fields.message)
            /\ (~Supplies(res.body, "message") /\ Supplies(res.body, "error"))
                 => err.message = ToStr(res.body.value.fields.error)
            /\ (~Supplies(res.body, "message") /\ ~Supplies(res.body, "error"))
                 => err.message = StatusLineMessage(res)

\* a 500 with an HTML body: the error names the status line
C23_Witness ==
  \E c \in LiveCalls :
    /\ Len(calls[c].log) = 2
    /\ calls[c].log[1] = Http(400, "Bad Request",
                              JsonText(JObj([message |-> JStr("m1")])))
    /\ calls[c].log[2] = Http(500, "Internal Server Error", GarbageText)
    /\ calls[c].lastErr =
         Err("Request failed (500 Internal Server Error)", 500)

\* the response is a 2xx whose body is empty or parses as JSON
Ok2xxJson(res) ==
  /\ res.fetch = "response" /\ res.status \in 200..299
  /\ res.body.text \in {"json", "empty"}

\* C24 as claimed: in submitLead and submitGatedResourceRequest a candidate
\* succeeds (the call is fulfilled with its answer) exactly when it answers
\* 2xx with an empty or parseable JSON body; after any other answer the next
\* candidate is requested, or the call rejects when it was the last one.
C24_PostSuccessIff2xxJson ==
  \A c \in LiveCalls :
    LET call == calls[c]
    IN call.kind \in {"lead", "resource"} =>
         \A k \in 1..Len(call.log) :
           LET succeeded == call.state = "fulfilled" /\ k = Len(call.log)
           IN /\ Ok2xxJson(call.log[k]) <=> succeeded
              /\ (~Ok2xxJson(call.log[k]) /\ k < 4) => Len(call.sent) >= k + 1
              /\ (~Ok2xxJson(call.log[k]) /\ k = 4) => call.state = "rejected"

(***************************************************************************)
(* Properties of the cooldown across events and reloads (SpecCooldown)     *)
(***************************************************************************)
\* the instants of the model's clock, and the ones an earlier visit stored
ClockInstants ==
  {StartNow + k * HalfWindow : k \in 0..(MaxTicks + 1)}
    \cup {StartNow - DEFAULT_WINDOW_MS, StartNow - HalfWindow}

\* the storage holds an instant less than a full window ago
WithinWindow ==
  \E t \in ClockInstants :
    StoredInstant(t) /\ t <= now /\ now - t < DEFAULT_WINDOW_MS

\* the step starts a submitLead call
LeadCallStarted ==
  Cardinality(Pending("lead")') > Cardinality(Pending("lead"))

\* C25: with a working storage that only the page writes, a lead submission
\* that succeeds stores its instant, nothing else changes the stored value,
\* and a submitLead call is started only by a submit made when the stored
\* instant is a full window old or there is none: after a success no call is
\* made within the window, whatever submits, Resets, field edits and reloads
\* come in between.
C25_NoCallWithinCooldown ==
  [][ /\ LeadSettled("fulfilled") =>
           /\ leadSubmitState'.status = "success"
           /\ storage' = Text(StringOf(now))
      /\ storage' # storage => LeadSettled("fulfilled")
      /\ LeadCallStarted => (IsLeadSubmit /\ ~WithinWindow)
      /\ (IsLeadSubmit /\ WithinWindow) =>
           (calls' = calls /\ leadSubmitState'.status = "blocked")
    ]_vars

\* a submission of this page succeeded, the form was reset, and the next
\* submit of valid fields was refused
C25_Witness ==
  /\ lastEvent.type = "leadSubmit"
  /\ lastEvent.status = "idle"
  /\ \E k \in 0..MaxTicks : StoredInstant(StartNow + k * HalfWindow)
  /\ WithinWindow
  /\ leadForm = ValidLead
  /\ leadSubmitState.status = "blocked"
  /\ calls = NoCalls

(***************************************************************************)
(* Properties of the gated-resource modal (SpecResource)                   *)
(***************************************************************************)
\* the step resumes handleResourceSubmit with its settled call
IsResourceSettle == lastEvent'.type \in {"resourceResponse", "resourceSettle"}

\* C26 as claimed: never more than one gated-resource request is in flight,
\* and the outcome of a request is applied only to the form that started it:
\* a form that is not submitting (the modal was closed while submitting and
\* opened again, which shows a fresh form) is left as it is when the request
\* of the earlier form settles.
C26_OneRequestOwnForm ==
  /\ [](Cardinality(Pending("resource")) <= 1)
  /\ [][ (IsResourceSettle /\ resourceSubmitState.status # "submitting")
         => resourceSubmitState' = resourceSubmitState ]_vars

\* C27 as claimed (SpecCooldown): whenever the lead form's status is blocked
\* the remaining cooldown is above 0; once the window has elapsed the form is
\* no longer blocked.
C27_BlockedOnlyWhileCooling ==
  leadSubmitState.status = "blocked"
    => getLeadSubmissionCooldownRemainingMs(DEFAULT_WINDOW_MS) > 0

(***************************************************************************)
(* Properties of the filter options (SpecFilter)                           *)
(***************************************************************************)
\* the item's value under the key is a string that trims to v
TrimsTo(item, key, v) ==
  Get(item, key).type = "string" /\ Trim(Get(item, key).chars) = v

\* with only the criterion of the key set, to v, the filtered inventory is
\* not empty and holds every item whose value trims to v
SelectsItsItems(key, v) ==
  LET items == inventoryState.items
      shown == {filteredInventory[i] : i \in 1..Len(filteredInventory)}
  IN filters = [NoFilters EXCEPT ![key] = v] =>
       /\ filteredInventory # <<>>
       /\ \A i \in 1..Len(items) : TrimsTo(items[i], key, v) => items[i] \in shown

\* C28 as claimed: every value that getUniqueValues gives for make (and for
\* body), other than "All", selects at least one item: with the other
\* criteria at their sentinels the filtered inventory is not empty and holds
\* every item whose trimmed make (body) is that value.
C28_EveryOptionSelects ==
  /\ \A v \in UniqueValues(inventoryState.items, "make") \ {AllOption} :
       SelectsItsItems("make", v)
  /\ \A v \in UniqueValues(inventoryState.items, "body") \ {AllOption} :
       SelectsItsItems("body", v)

(***************************************************************************)
(* Termination of submissions and of the inventory load (SpecLive)         *)
(***************************************************************************)
\* C29: when every request issued completes, a lead form in submitting and
\* a resource form in submitting come to success or error, and the inventory
\* state of a mounted App comes to loading false (or the App is unmounted):
\* no sequence of candidate outcomes keeps a form submitting or the
\* inventory loading for ever.
C29_SubmittingAndLoadingEnd ==
  /\ (leadSubmitState.status = "submitting")
       ~> (leadSubmitState.status \in {"success", "error"})
  /\ (resourceSubmitState.status = "submitting")
       ~> (resourceSubmitState.status \in {"success", "error"})
  /\ (mounted /\ inventoryState.loading)
       ~> (~inventoryState.loading \/ ~mounted)

\* every candidate of a lead submission failed and the form shows the error
C29_Witness ==
  /\ lastEvent.type = "leadResponse"
  /\ lastEvent.outcome = "rejected"
  /\ leadSubmitState.status = "error"
  /\ Pending("lead") = {}

(***************************************************************************)
(* Properties of submitGatedResourceRequest (SpecApi)                      *)
(***************************************************************************)
\* C30 as claimed: a submitGatedResourceRequest call that succeeds in live
\* mode returns ok true and source "api" whatever the 2xx body holds, and of
\* the body's fields only downloadUrl and message appear in the result.
C30_ResultOkFromApi ==
  \A c \in LiveCalls :
    (calls[c].kind = "resource" /\ calls[c].state = "fulfilled") =>
      /\ calls[c].value.fields.ok = JBool(TRUE)
      /\ calls[c].value.fields.source = JStr("api")
      /\ DOMAIN calls[c].value.fields
           \subseteq {"ok", "source", "downloadUrl", "message"}
====
